---- MODULE Spec2Model ----
(***************************************************************************)
(* The Intcode virtual machine of src/src/vm.rs as a state machine.        *)
(*                                                                         *)
(* The VM's fields are the variables bytecode, pc, inputs, outputs, done   *)
(* and relative_base.  A call of run or run_till_output is followed one    *)
(* loop iteration (one instruction) at a time: `call` is the position of   *)
(* the caller (idle, or inside one of the two calls), so a call that never *)
(* returns is a behaviour of the model like any other.  A Rust panic is    *)
(* recorded in `fault`; nothing executes after it.                         *)
(*                                                                         *)
(* Memory is a TLA+ sequence: address a is index a + 1.                    *)
(*                                                                         *)
(* The history variables program, supplied, consumed, entry, last and ret  *)
(* record what the caller saw: the program handed to new, the values       *)
(* handed to set_inputs, the number of values popped by Input              *)
(* instructions, the VM at the entry of the latest call of run or          *)
(* run_till_output, the last loop iteration, and the last value returned.  *)
(***************************************************************************)
EXTENDS Integers, Sequences, FiniteSets, TLC

VARIABLES bytecode, pc, inputs, outputs, done, relative_base,
          fault, call, program, supplied, consumed, entry, last, ret,
          topology, seeds, vms, signal, vm_index, at, result, fed

vars == <<bytecode, pc, inputs, outputs, done, relative_base,
          fault, call, program, supplied, consumed, entry, last, ret,
          topology, seeds, vms, signal, vm_index, at, result, fed>>

\* the state of a composition of five instances (d07a.rs, d07b.rs, d07.rs):
\* which function runs, its inputs argument, its VMs, signal and index,
\* where it is, what it returned, and the values it has handed to
\* set_inputs of each instance so far
cvars == <<topology, seeds, vms, signal, vm_index, at, result, fed>>

vmvars == <<bytecode, pc, inputs, outputs, done, relative_base>>

(***************************************************************************)
(* Bounds of the model.                                                    *)
(***************************************************************************)
\* total number of values the caller hands to set_inputs in one behaviour
MaxSupplied == 2
\* longest slice handed to one set_inputs call
MaxBatch == 2
\* largest instruction word the decoder specification draws
MaxWord == 22299
\* smallest (negated) instruction word the decoder specification draws
MaxNegWord == 120
\* most loop iterations a reference execution is followed for
MaxSteps == 120

\* the values the caller supplies as inputs (those of the tests in vm.rs)
InputVals == {0, 55, 111}

(***************************************************************************)
(* Rust integer arithmetic: / truncates towards zero and % takes the sign  *)
(* of the dividend.                                                        *)
(***************************************************************************)
RustDiv(a, b) == IF a >= 0 THEN a \div b ELSE -((-a) \div b)

RustRem(a, b) == IF a >= 0 THEN a % b ELSE -((-a) % b)

\* From<i64> for Mode falling back to Position on an unknown digit
ModeFromDefaulting(v) ==
    CASE v = 0 -> "Position"
      [] v = 1 -> "Immediate"
      [] v = 2 -> "Relative"
      [] OTHER -> "Position"

(***************************************************************************)
(* impl From<i64> for Mode; "Unexpected" stands for the panic.             *)
(***************************************************************************)
ModeFrom(v) ==
    CASE v = 0 -> "Position"
      [] v = 1 -> "Immediate"
      [] v = 2 -> "Relative"
      [] OTHER -> "Unexpected"

\* Mode::parse with the divisors of slot 0 copied to slot 1
ModeParseCopied(m, index) ==
    CASE index = 0 -> ModeFrom(RustDiv(RustRem(m, 1000), 100))
      [] index = 1 -> ModeFrom(RustDiv(RustRem(m, 1000), 100))
      [] index = 2 -> ModeFrom(RustDiv(RustRem(m, 100000), 10000))
      [] OTHER -> "Unexpected"

(***************************************************************************)
(* Mode::parse(m, index).                                                  *)
(***************************************************************************)
ModeParse(m, index) ==
    CASE index = 0 -> ModeFrom(RustDiv(RustRem(m, 1000), 100))
      [] index = 1 -> ModeFrom(RustDiv(RustRem(m, 10000), 1000))
      [] index = 2 -> ModeFrom(RustDiv(RustRem(m, 100000), 10000))
      [] OTHER -> "Unexpected"

\* the opcode table read with a remainder that is never negative
OpcodeFromFloored(v) ==
    LET r == v % 100
    IN  CASE r = 1 -> "Add"
          [] r = 2 -> "Multiply"
          [] r = 3 -> "Input"
          [] r = 4 -> "Output"
          [] r = 5 -> "JumpIfTrue"
          [] r = 6 -> "JumpIfFalse"
          [] r = 7 -> "LessThan"
          [] r = 8 -> "Equals"
          [] r = 9 -> "AdjustRelativeBase"
          [] r = 99 -> "Halt"
          [] OTHER -> "Unexpected"

(***************************************************************************)
(* impl From<i64> for Opcode; "Unexpected" stands for the panic.           *)
(***************************************************************************)
OpcodeFrom(v) ==
    LET r == RustRem(v, 100)
    IN  CASE r = 1 -> "Add"
          [] r = 2 -> "Multiply"
          [] r = 3 -> "Input"
          [] r = 4 -> "Output"
          [] r = 5 -> "JumpIfTrue"
          [] r = 6 -> "JumpIfFalse"
          [] r = 7 -> "LessThan"
          [] r = 8 -> "Equals"
          [] r = 9 -> "AdjustRelativeBase"
          [] r = 99 -> "Halt"
          [] OTHER -> "Unexpected"

(***************************************************************************)
(* The number of operands get_next_instruction pushes for each opcode.     *)
(***************************************************************************)
NumOperands(op) ==
    CASE op \in {"Add", "Multiply", "LessThan", "Equals"} -> 3
      [] op \in {"JumpIfTrue", "JumpIfFalse"} -> 2
      [] op \in {"Input", "Output", "AdjustRelativeBase"} -> 1
      [] OTHER -> 0

(***************************************************************************)
(* Vec indexing: bytecode[i] panics unless i < len.  A negative address is *)
(* never in bounds: Load and set_mem stop on it before any indexing.       *)
(***************************************************************************)
InBounds(mem, i) == i >= 0 /\ i < Len(mem)

Operand(value, mode) == [value |-> value, mode |-> mode]

(***************************************************************************)
(* The first panic of get_next_instruction's operand pushes, in the order  *)
(* the source evaluates them: for slot i the index bytecode[pc + 1 + i],   *)
(* then Mode::parse(mode, i).                                              *)
(***************************************************************************)
SlotFault(mem, p, mode, i) ==
    IF ~InBounds(mem, p + 1 + i) THEN "FetchOutOfBounds"
    ELSE IF ModeParse(mode, i) = "Unexpected" THEN "UnknownMode"
    ELSE "none"

\* OperandsFault checking the mode digits of all three slots, read or not
OperandsFaultAllSlots(mem, p, mode, n) ==
    LET bad == {i \in 0..(n - 1) : SlotFault(mem, p, mode, i) # "none"}
        unread == {i \in n..2 : ModeParse(mode, i) = "Unexpected"}
    IN  IF bad # {}
        THEN SlotFault(mem, p, mode, CHOOSE i \in bad : \A j \in bad : i <= j)
        ELSE IF unread # {} THEN "UnknownMode"
        ELSE "none"

OperandsFault(mem, p, mode, n) ==
    LET bad == {i \in 0..(n - 1) : SlotFault(mem, p, mode, i) # "none"}
    IN  IF bad = {} THEN "none"
        ELSE SlotFault(mem, p, mode, CHOOSE i \in bad : \A j \in bad : i <= j)

(***************************************************************************)
(* VM::get_next_instruction: the decoded Instruction, or the panic.        *)
(***************************************************************************)
get_next_instruction(mem, p) ==
    IF ~InBounds(mem, p)
    THEN [fault |-> "FetchOutOfBounds", code |-> 0, opcode |-> 0,
          op |-> "Unexpected", operands |-> <<>>]
    ELSE
    LET code == mem[p + 1]
        mode == code - RustRem(code, 100)
        opcode == RustRem(code, 100)
        op == OpcodeFrom(code)
        n == NumOperands(op)
        f == OperandsFault(mem, p, mode, n)
    IN  IF op = "Unexpected"
        THEN [fault |-> "UnknownOpcode", code |-> code, opcode |-> opcode,
              op |-> op, operands |-> <<>>]
        ELSE IF f # "none"
        THEN [fault |-> f, code |-> code, opcode |-> opcode,
              op |-> op, operands |-> <<>>]
        ELSE [fault |-> "none", code |-> code, opcode |-> opcode, op |-> op,
              operands |-> [i \in 1..n |->
                              Operand(mem[p + 1 + i], ModeParse(mode, i - 1))]]

(***************************************************************************)
(* Vec::resize(n, 0) as called by ensure_mem_availability.                 *)
(***************************************************************************)
Resize(mem, n) == [i \in 1..n |-> IF i <= Len(mem) THEN mem[i] ELSE 0]

\* ensure_mem_availability allocating anew without keeping the old cells
ensure_mem_fresh(mem, mem_size) ==
    IF mem_size > Len(mem) THEN [i \in 1..(mem_size * 2) |-> 0] ELSE mem

(***************************************************************************)
(* VM::ensure_mem_availability.                                            *)
(***************************************************************************)
ensure_mem_availability(mem, mem_size) ==
    IF mem_size > Len(mem) THEN Resize(mem, mem_size * 2) ELSE mem

\* a load that wraps a negative address round into memory
LoadWrapped(mem, address) ==
    LET a == IF address < 0 THEN address % Len(mem) ELSE address
        m2 == ensure_mem_availability(mem, a)
    IN  IF InBounds(m2, a)
        THEN [mem |-> m2, val |-> m2[a + 1], fault |-> "none", addrs |-> {a}]
        ELSE [mem |-> m2, val |-> 0, fault |-> "IndexOutOfBounds",
              addrs |-> {a}]

(***************************************************************************)
(* The Position and Relative arms of get_value at a resolved address:      *)
(* ensure_mem_availability(address as usize), then bytecode[address].      *)
(* A negative address cast to usize is at least 2^63: doubling it          *)
(* overflows (a panic in a debug build) and the wrapped size is beyond     *)
(* what a Vec can hold (a capacity panic otherwise), so the access aborts  *)
(* with memory untouched.                                                  *)
(***************************************************************************)
Load(mem, address) ==
    IF address < 0
    THEN [mem |-> mem, val |-> 0, fault |-> "AddressOverflow", addrs |-> {address}]
    ELSE LET m2 == ensure_mem_availability(mem, address)
         IN  IF InBounds(m2, address)
             THEN [mem |-> m2, val |-> m2[address + 1], fault |-> "none",
                   addrs |-> {address}]
             ELSE [mem |-> m2, val |-> 0, fault |-> "IndexOutOfBounds",
                   addrs |-> {address}]

\* get_value reading a Relative operand without the relative base
get_value_unbased(mem, rb, operand) ==
    CASE operand.mode = "Immediate" ->
            [mem |-> mem, val |-> operand.value, fault |-> "none", addrs |-> {}]
      [] operand.mode = "Position" -> Load(mem, operand.value)
      [] operand.mode = "Relative" -> Load(mem, operand.value)

(***************************************************************************)
(* VM::get_value.                                                          *)
(***************************************************************************)
get_value(mem, rb, operand) ==
    CASE operand.mode = "Immediate" ->
            [mem |-> mem, val |-> operand.value, fault |-> "none", addrs |-> {}]
      [] operand.mode = "Position" -> Load(mem, operand.value)
      [] operand.mode = "Relative" -> Load(mem, operand.value + rb)

(***************************************************************************)
(* VM::set_mem.                                                            *)
(***************************************************************************)
set_mem(mem, address, v) ==
    IF address < 0
    THEN [mem |-> mem, fault |-> "AddressOverflow", wrote |-> {}]
    ELSE LET m2 == ensure_mem_availability(mem, address)
         IN  IF InBounds(m2, address)
             THEN [mem |-> [m2 EXCEPT ![address + 1] = v], fault |-> "none",
                   wrote |-> {address}]
             ELSE [mem |-> m2, fault |-> "IndexOutOfBounds", wrote |-> {}]

\* get_absolute_address taking an Immediate operand as an address
get_absolute_address_lenient(rb, operand) ==
    CASE operand.mode = "Position" -> [addr |-> operand.value, fault |-> "none"]
      [] operand.mode = "Relative" -> [addr |-> operand.value + rb, fault |-> "none"]
      [] operand.mode = "Immediate" -> [addr |-> operand.value, fault |-> "none"]

(***************************************************************************)
(* VM::get_absolute_address.                                               *)
(***************************************************************************)
get_absolute_address(rb, operand) ==
    CASE operand.mode = "Position" -> [addr |-> operand.value, fault |-> "none"]
      [] operand.mode = "Relative" -> [addr |-> operand.value + rb, fault |-> "none"]
      [] operand.mode = "Immediate" -> [addr |-> 0, fault |-> "InvalidWriteTarget"]

\* the Input arm's address without the relative base
InputAddressRaw(rb, operand) == operand.value

(***************************************************************************)
(* The address the Input arm computes: the raw value, plus the relative    *)
(* base when the mode is Relative.                                         *)
(***************************************************************************)
InputAddress(rb, operand) ==
    IF operand.mode = "Relative" THEN operand.value + rb ELSE operand.value

(***************************************************************************)
(* The outcome of one iteration of run_till_output's loop on VM vm with    *)
(* decoded instruction i, before any of its effects: brk says that the     *)
(* iteration leaves the loop, wrote holds the address set_mem stored to,   *)
(* addrs the addresses the operands resolved to.                           *)
(***************************************************************************)
Base(vm, i) ==
    [bytecode |-> vm.bytecode, pc |-> vm.pc, inputs |-> vm.inputs,
     outputs |-> vm.outputs, done |-> vm.done,
     relative_base |-> vm.relative_base,
     fault |-> "none", brk |-> FALSE, popped |-> FALSE,
     wrote |-> {}, addrs |-> {}, inst |-> i]

(***************************************************************************)
(* The values the four storing arms compute.  The source computes in i64;  *)
(* the values of the modelled programs stay far inside that range, so the  *)
(* sums and products are the mathematical ones.                            *)
(***************************************************************************)
AddResult(v1, v2) == v1 + v2

\* the Multiply arm computing the sum of the Add arm
MultiplyAsAdd(v1, v2) == v1 + v2

MultiplyResult(v1, v2) == v1 * v2

\* the LessThan arm comparing with <=
LessThanOrEqualResult(v1, v2) == IF v1 <= v2 THEN 1 ELSE 0

LessThanResult(v1, v2) == IF v1 < v2 THEN 1 ELSE 0

\* Equals that never finds its operands equal
EqualsResultNever(v1, v2) == 0

EqualsResult(v1, v2) == IF v1 # v2 THEN 0 ELSE 1

StoreResult(op, v1, v2) ==
    CASE op = "Add" -> AddResult(v1, v2)
      [] op = "Multiply" -> MultiplyResult(v1, v2)
      [] op = "LessThan" -> LessThanResult(v1, v2)
      [] op = "Equals" -> EqualsResult(v1, v2)

\* the storing arms clearing the destination before they read the values
ExecStoreClearFirst(vm, i) ==
    LET b == Base(vm, i)
        rb == vm.relative_base
        d == get_absolute_address(rb, i.operands[3])
        c == set_mem(vm.bytecode, d.addr, 0)
        r1 == get_value(c.mem, rb, i.operands[1])
        r2 == get_value(r1.mem, rb, i.operands[2])
        w == set_mem(r2.mem, d.addr, StoreResult(i.op, r1.val, r2.val))
    IN  IF d.fault # "none" \/ c.fault # "none"
        THEN [b EXCEPT !.fault = IF d.fault # "none" THEN d.fault ELSE c.fault]
        ELSE IF r1.fault # "none" \/ r2.fault # "none" \/ w.fault # "none"
        THEN [b EXCEPT !.bytecode = w.mem, !.fault = "IndexOutOfBounds"]
        ELSE [b EXCEPT !.bytecode = w.mem, !.pc = @ + 4, !.wrote = w.wrote,
                       !.addrs = r1.addrs \cup r2.addrs \cup {d.addr}]

(***************************************************************************)
(* Opcode::Add, Multiply, LessThan and Equals: both values are read, then  *)
(* the destination is resolved, then set_mem stores the result.            *)
(***************************************************************************)
ExecStore(vm, i) ==
    LET b == Base(vm, i)
        rb == vm.relative_base
        r1 == get_value(vm.bytecode, rb, i.operands[1])
        r2 == get_value(r1.mem, rb, i.operands[2])
        d == get_absolute_address(rb, i.operands[3])
        w == set_mem(r2.mem, d.addr, StoreResult(i.op, r1.val, r2.val))
    IN  IF r1.fault # "none"
        THEN [b EXCEPT !.bytecode = r1.mem, !.fault = r1.fault,
                       !.addrs = r1.addrs]
        ELSE IF r2.fault # "none"
        THEN [b EXCEPT !.bytecode = r2.mem, !.fault = r2.fault,
                       !.addrs = r1.addrs \cup r2.addrs]
        ELSE IF d.fault # "none"
        THEN [b EXCEPT !.bytecode = r2.mem, !.fault = d.fault,
                       !.addrs = r1.addrs \cup r2.addrs]
        ELSE IF w.fault # "none"
        THEN [b EXCEPT !.bytecode = w.mem, !.fault = w.fault,
                       !.addrs = r1.addrs \cup r2.addrs \cup {d.addr}]
        ELSE [b EXCEPT !.bytecode = w.mem, !.pc = @ + 4, !.wrote = w.wrote,
                       !.addrs = r1.addrs \cup r2.addrs \cup {d.addr}]

\* pop_front().unwrap_or(0): an empty queue yields a default value
pop_front_or_default(q) ==
    IF q = <<>> THEN [some |-> TRUE, val |-> 0, rest |-> q]
    ELSE [some |-> TRUE, val |-> Head(q), rest |-> Tail(q)]

(***************************************************************************)
(* LinkedList::pop_front on the input queue: the Option it returns.        *)
(***************************************************************************)
pop_front(q) ==
    IF q = <<>> THEN [some |-> FALSE, val |-> 0, rest |-> q]
    ELSE [some |-> TRUE, val |-> Head(q), rest |-> Tail(q)]

(***************************************************************************)
(* Opcode::Input: pop_front().unwrap(), then the store.                    *)
(***************************************************************************)
ExecInput(vm, i) ==
    LET b == Base(vm, i)
        inp == pop_front(vm.inputs)
        address == InputAddress(vm.relative_base, i.operands[1])
        w == set_mem(vm.bytecode, address, inp.val)
    IN  IF ~inp.some
        THEN [b EXCEPT !.fault = "InputExhausted"]
        ELSE IF w.fault # "none"
        THEN [b EXCEPT !.inputs = inp.rest, !.popped = TRUE,
                       !.bytecode = w.mem, !.fault = w.fault,
                       !.addrs = {address}]
        ELSE [b EXCEPT !.inputs = inp.rest, !.popped = TRUE,
                       !.bytecode = w.mem, !.pc = @ + 2,
                       !.wrote = w.wrote, !.addrs = {address}]

\* output inserting at the front of the log
output_front(log, o) == <<o>> \o log

(***************************************************************************)
(* VM::output.                                                             *)
(***************************************************************************)
output(log, o) == Append(log, o)

\* ExecOutput without the break that ends the call
ExecOutputNoBreak(vm, i) ==
    LET b == Base(vm, i)
        r == get_value(vm.bytecode, vm.relative_base, i.operands[1])
    IN  IF r.fault # "none"
        THEN [b EXCEPT !.bytecode = r.mem, !.fault = r.fault, !.addrs = r.addrs]
        ELSE [b EXCEPT !.bytecode = r.mem, !.outputs = Append(@, r.val),
                       !.pc = @ + 2, !.addrs = r.addrs]

(***************************************************************************)
(* Opcode::Output: the value is appended and the loop is left.             *)
(***************************************************************************)
ExecOutput(vm, i) ==
    LET b == Base(vm, i)
        r == get_value(vm.bytecode, vm.relative_base, i.operands[1])
    IN  IF r.fault # "none"
        THEN [b EXCEPT !.bytecode = r.mem, !.fault = r.fault, !.addrs = r.addrs]
        ELSE [b EXCEPT !.bytecode = r.mem, !.outputs = output(@, r.val),
                       !.pc = @ + 2, !.brk = TRUE, !.addrs = r.addrs]

(***************************************************************************)
(* `v as usize` on an i64: a negative v wraps to v + 2^64.  The model      *)
(* keeps the wrap with a modulus its integers can hold; every length, pc   *)
(* and address it forms otherwise is far below it.                         *)
(***************************************************************************)
UsizeModulus == 2 ^ 30

AsUsize(v) == IF v < 0 THEN v + UsizeModulus ELSE v

(***************************************************************************)
(* The conditions of the two jump arms.                                    *)
(***************************************************************************)
\* JumpIfTrue testing for a positive value
JumpTakenPositive(op, v) == IF op = "JumpIfTrue" THEN v > 0 ELSE v = 0

JumpTaken(op, v) == IF op = "JumpIfTrue" THEN v # 0 ELSE v = 0

(***************************************************************************)
(* Opcode::JumpIfTrue and JumpIfFalse.                                     *)
(***************************************************************************)
ExecJump(vm, i) ==
    LET b == Base(vm, i)
        rb == vm.relative_base
        r1 == get_value(vm.bytecode, rb, i.operands[1])
        r2 == get_value(r1.mem, rb, i.operands[2])
    IN  IF r1.fault # "none"
        THEN [b EXCEPT !.bytecode = r1.mem, !.fault = r1.fault,
                       !.addrs = r1.addrs]
        ELSE IF ~JumpTaken(i.op, r1.val)
        THEN [b EXCEPT !.bytecode = r1.mem, !.pc = @ + 3, !.addrs = r1.addrs]
        ELSE IF r2.fault # "none"
        THEN [b EXCEPT !.bytecode = r2.mem, !.fault = r2.fault,
                       !.addrs = r1.addrs \cup r2.addrs]
        ELSE [b EXCEPT !.bytecode = r2.mem, !.pc = AsUsize(r2.val),
                       !.addrs = r1.addrs \cup r2.addrs]

\* AdjustRelativeBase assigning the value in the place of adding it
ExecSetRelativeBase(vm, i) ==
    LET b == Base(vm, i)
        r == get_value(vm.bytecode, vm.relative_base, i.operands[1])
    IN  IF r.fault # "none"
        THEN [b EXCEPT !.bytecode = r.mem, !.fault = r.fault, !.addrs = r.addrs]
        ELSE [b EXCEPT !.bytecode = r.mem, !.relative_base = r.val,
                       !.pc = @ + 2, !.addrs = r.addrs]

(***************************************************************************)
(* Opcode::AdjustRelativeBase.                                             *)
(***************************************************************************)
ExecAdjustRelativeBase(vm, i) ==
    LET b == Base(vm, i)
        r == get_value(vm.bytecode, vm.relative_base, i.operands[1])
    IN  IF r.fault # "none"
        THEN [b EXCEPT !.bytecode = r.mem, !.fault = r.fault, !.addrs = r.addrs]
        ELSE [b EXCEPT !.bytecode = r.mem, !.relative_base = @ + r.val,
                       !.pc = @ + 2, !.addrs = r.addrs]

\* Halt leaving the loop without setting done
ExecHaltNotDone(vm, i) ==
    [Base(vm, i) EXCEPT !.pc = @ + 1, !.brk = TRUE]

\* Halt setting done without stepping over the instruction
ExecHaltInPlace(vm, i) ==
    [Base(vm, i) EXCEPT !.done = TRUE, !.brk = TRUE]

(***************************************************************************)
(* Opcode::Halt.                                                           *)
(***************************************************************************)
ExecHalt(vm, i) ==
    [Base(vm, i) EXCEPT !.pc = @ + 1, !.done = TRUE, !.brk = TRUE]

(***************************************************************************)
(* One iteration of the loop of run_till_output: fetch, decode, dispatch.  *)
(***************************************************************************)
Exec(vm) ==
    LET i == get_next_instruction(vm.bytecode, vm.pc)
    IN  IF i.fault # "none" THEN [Base(vm, i) EXCEPT !.fault = i.fault]
        ELSE CASE i.op = "Halt" -> ExecHalt(vm, i)
               [] i.op = "AdjustRelativeBase" -> ExecAdjustRelativeBase(vm, i)
               [] i.op \in {"Add", "Multiply", "LessThan", "Equals"} ->
                    ExecStore(vm, i)
               [] i.op = "Input" -> ExecInput(vm, i)
               [] i.op = "Output" -> ExecOutput(vm, i)
               [] i.op \in {"JumpIfTrue", "JumpIfFalse"} -> ExecJump(vm, i)

(***************************************************************************)
(* The programs the model runs: those of the tests of vm.rs, and small     *)
(* programs that reach the arms, the modes, the memory growth and the      *)
(* panics the tests leave out.                                             *)
(***************************************************************************)
TestPrograms ==
    { <<1, 0, 0, 0, 99>>,
      <<2, 3, 0, 3, 99>>,
      <<2, 4, 4, 5, 99, 0>>,
      <<1, 1, 1, 4, 99, 5, 6, 0, 99>>,
      <<1, 1, 1, 4, 99, 5, 6, 0, 3, 0, 4, 0, 99>>,
      <<3, 12, 6, 12, 15, 1, 13, 14, 13, 4, 13, 99, -1, 0, 1, 9>>,
      <<3, 3, 1105, -1, 9, 1101, 0, 0, 12, 4, 12, 99, 1>>,
      <<109, 1, 204, -1, 1001, 100, 1, 100, 1008, 100, 16, 101, 1006, 101,
        0, 99>>,
      <<109, 100, 109, 25, 109, -20, 203, 50, 103, 50, 99>> }

\* one-operand instructions at every mode, around the end of memory
OneOperandPrograms ==
    { <<w, a, 99>> : w \in {3, 103, 203, 4, 104, 204, 9, 109, 209, 304},
                     a \in -1..4 }

\* storing instructions with each mode of the destination
StorePrograms ==
    { <<w, 5, 6, c, 99, 3, 4>> :
        w \in {1, 2, 7, 8, 1101, 1002, 20001, 10001, 10002, 10007, 10008},
        c \in {-1, 0, 6, 7, 9} }

OtherPrograms ==
    { <<99>>,
      <<99, 104, 7, 99>>,
      <<104, 7, 1101, 1, 1, 0, 4, 0, 99>>,
      <<3, 0, 3, 1, 4, 0, 4, 1, 99>>,
      <<3, 0, 4, 0, 3, 1, 4, 1, 99>>,
      <<3, 9, 8, 9, 10, 9, 4, 9, 99, -1, 8>>,
      <<3, 3, 1107, -1, 8, 3, 4, 3, 99>>,
      <<1105, 1, 0>>,
      <<1105, 1, -3>>,
      <<1106, 0, 7, 99>>,
      <<104, 5>>,
      <<1, 0, 0>>,
      <<0>>,
      <<-1>>,
      <<13, 0, 0>>,
      <<10001, 20, 0, 0, 99>>,
      <<109, 7, 21101, 4, 5, 3, 204, 3, 99>>,
      <<109, -5, 204, 0, 99>>,
      <<109, 3, 203, 8, 204, 8, 99>>,
      <<104, 7, 0>>,
      <<-97, 0, 99>>,
      <<-99>>,
      <<100, 0>>,
      <<1100, 1, 1, 0>>,
      <<109, 2, 1198, 0, 0, 0>> }

\* instructions with a mode digit beyond 2 in each slot, whole and cut short
BadModePrograms ==
    { <<w, 5, 6, 0, 99, 3, 4>> :
        w \in {301, 3002, 30007, 31108, 305, 3006, 903, 30005} }
    \cup { <<3001, 1>>,
           <<30001, 0, 0>>,
           <<109, 4, 104, 7, 3001, 0, 0, 0>> }

\* an Add or Multiply that rewrites itself, the next instruction or the
\* last Halt
ArithPrograms ==
    { <<w, a, b, c, 99, 5, 6, 0, 99>> :
        w \in {1, 2}, a \in {0, 1, 3}, b \in {0, 1}, c \in {0, 4, 8} }
    \cup { <<1, 0, 0, 0, 99>>,
           <<2, 3, 0, 3, 99>>,
           <<2, 4, 4, 5, 99, 0>>,
           <<1, 1, 1, 4, 99, 5, 6, 0, 99>> }

\* the two programs of tests::test_jump_instructions
JumpTestPrograms ==
    { <<3, 12, 6, 12, 15, 1, 13, 14, 13, 4, 13, 99, -1, 0, 1, 9>>,
      <<3, 3, 1105, -1, 9, 1101, 0, 0, 12, 4, 12, 99, 1>> }

\* a jump at every pair of modes, behind a relative base of 2: it falls
\* through to an Output of 1 or goes where its second operand says
JumpPrograms ==
    JumpTestPrograms \cup
    { <<109, 2, w, x, y, 104, 1, 99, 104, 2, 99, 8, 0, 8>> :
        w \in {5, 105, 205, 1005, 1105, 1205, 2005, 2105, 2205,
               6, 106, 206, 1006, 1106, 1206, 2006, 2106, 2206},
        x \in {0, -1, 10, 12}, y \in {8, 11, -3} }

\* a storing instruction of opcode number in ops at every mode of its two
\* sources, storing to cell 9 by a Position or a Relative destination,
\* behind a relative base of 1
StoreModePrograms(ops) ==
    { <<109, 1, op + 100 * m0 + 1000 * m1 + 10000 * m2, x, y,
        IF m2 = 0 THEN 9 ELSE 8, 4, 9, 99, 5>> :
        op \in ops, m0 \in 0..2, m1 \in 0..2, m2 \in {0, 2},
        x \in {-2, 0, 3}, y \in {-2, 0, 3} }

ComparePrograms == StoreModePrograms({7, 8})

\* one-operand instructions behind a negative relative base
NegativeBasePrograms ==
    { <<109, -5, w, a, 99>> : w \in {4, 204, 203, 209}, a \in {0, 4, 5, 6} }

\* every instruction that reads operand values, at every mode
OperandPrograms ==
    StoreModePrograms({1, 2}) \cup ComparePrograms \cup JumpPrograms
        \cup OneOperandPrograms \cup NegativeBasePrograms \cup StorePrograms

\* loops of jumps: two that never leave, one that leaves after an Output,
\* counting loops that end, and an Add inside a loop that never leaves
LoopPrograms ==
    { <<1105, 1, 3, 1105, 1, 0>>,
      <<1106, 0, 3, 1106, 0, 6, 1105, 1, 0>>,
      <<104, 7, 1105, 1, 5, 1105, 1, 2>>,
      <<1101, 0, 0, 7, 1105, 1, 0, 5>>,
      <<1001, 9, -1, 9, 1005, 9, 0, 99, 0, 3>>,
      <<1001, 11, -1, 11, 1005, 11, 0, 104, 7, 99, 0, 2>> }

Programs ==
    TestPrograms \cup OneOperandPrograms \cup StorePrograms \cup OtherPrograms
        \cup BadModePrograms

(***************************************************************************)
(* The VM as one record, and VM::new.                                      *)
(***************************************************************************)
VMState ==
    [bytecode |-> bytecode, pc |-> pc, inputs |-> inputs, outputs |-> outputs,
     done |-> done, relative_base |-> relative_base]

\* VM::new keeping the memory empty and starting one cell on
new_empty(prog) ==
    [bytecode |-> <<>>, pc |-> 1, inputs |-> <<>>, outputs |-> <<>>,
     done |-> FALSE, relative_base |-> 0]

new(prog) ==
    [bytecode |-> prog, pc |-> 0, inputs |-> <<>>, outputs |-> <<>>,
     done |-> FALSE, relative_base |-> 0]

\* no composition: one VM and its caller
NoCircuit ==
    /\ topology = "none"
    /\ seeds = <<>>
    /\ vms = <<>>
    /\ signal = 0
    /\ vm_index = 0
    /\ at = "none"
    /\ result = <<>>
    /\ fed = <<>>

NoInstruction ==
    [fault |-> "none", code |-> 0, opcode |-> 0, op |-> "none",
     operands |-> <<>>]

NoLast ==
    [pc |-> 0, inst |-> NoInstruction, wrote |-> {}, addrs |-> {}]

NoRet == [kind |-> "none", val |-> <<>>]

Init ==
    /\ program \in Programs
    /\ bytecode = new(program).bytecode
    /\ pc = new(program).pc
    /\ inputs = new(program).inputs
    /\ outputs = new(program).outputs
    /\ done = new(program).done
    /\ relative_base = new(program).relative_base
    /\ entry = [call |-> "none", vm |-> new(program)]
    /\ fault = "none"
    /\ call = "idle"
    /\ supplied = <<>>
    /\ consumed = 0
    /\ last = NoLast
    /\ ret = NoRet
    /\ NoCircuit

(***************************************************************************)
(* The caller may call a method when no call is in progress and nothing    *)
(* has panicked.                                                           *)
(***************************************************************************)
CanCall == call = "idle" /\ fault = "none"

(***************************************************************************)
(* LinkedList::push_back, and the loop of set_inputs over the slice.       *)
(***************************************************************************)
\* push_front in the place of push_back
push_front(q, x) == <<x>> \o q

push_back(q, x) == Append(q, x)

RECURSIVE PushAll(_, _)
PushAll(q, v) ==
    IF v = <<>> THEN q ELSE PushAll(push_back(q, Head(v)), Tail(v))

Slices == UNION { [1..n -> InputVals] : n \in 0..MaxBatch }

\* set_inputs replacing the queue by the slice
set_inputs_replacing(v) ==
    /\ CanCall
    /\ Len(supplied) + Len(v) <= MaxSupplied
    /\ inputs' = v
    /\ supplied' = supplied \o v
    /\ UNCHANGED <<cvars, bytecode, pc, outputs, done, relative_base, fault, call,
                   program, consumed, entry, last, ret>>

(***************************************************************************)
(* VM::set_inputs(v).                                                      *)
(***************************************************************************)
set_inputs(v) ==
    /\ CanCall
    /\ Len(supplied) + Len(v) <= MaxSupplied
    /\ inputs' = PushAll(inputs, v)
    /\ supplied' = supplied \o v
    /\ UNCHANGED <<cvars, bytecode, pc, outputs, done, relative_base, fault, call,
                   program, consumed, entry, last, ret>>

\* run_till_output without the test of done
run_till_output_unguarded ==
    /\ CanCall
    /\ entry' = [call |-> "run_till_output", vm |-> VMState]
    /\ call' = "run_till_output"
    /\ ret' = NoRet
    /\ UNCHANGED <<cvars, vmvars, fault, program, supplied, consumed, last>>

(***************************************************************************)
(* VM::run_till_output, the entry: it returns at once when done is set,    *)
(* and enters the loop otherwise.                                          *)
(***************************************************************************)
run_till_output ==
    /\ CanCall
    /\ entry' = [call |-> "run_till_output", vm |-> VMState]
    /\ IF done
       THEN /\ call' = "idle"
            /\ ret' = [kind |-> "run_till_output", val |-> <<>>]
       ELSE /\ call' = "run_till_output"
            /\ ret' = NoRet
    /\ UNCHANGED <<cvars, vmvars, fault, program, supplied, consumed, last>>

(***************************************************************************)
(* VM::run, the entry: while !done it calls run_till_output.               *)
(***************************************************************************)
run ==
    /\ CanCall
    /\ entry' = [call |-> "run", vm |-> VMState]
    /\ IF done
       THEN /\ call' = "idle"
            /\ ret' = [kind |-> "run", val |-> <<>>]
       ELSE /\ call' = "run"
            /\ ret' = NoRet
    /\ UNCHANGED <<cvars, vmvars, fault, program, supplied, consumed, last>>

\* run_till_output returning only once the VM is halted, as run does
AfterIterationUntilDone(c, r) ==
    IF r.fault # "none" THEN c
    ELSE IF ~r.brk THEN c
    ELSE IF r.done THEN "idle" ELSE c

\* run returning at the first break, as run_till_output does
AfterIterationFirstBreak(c, r) ==
    IF r.fault # "none" THEN c
    ELSE IF ~r.brk THEN c
    ELSE "idle"

(***************************************************************************)
(* Where the caller is after a loop iteration: a panic never returns; a    *)
(* break returns from run_till_output, and from run when done is set (its  *)
(* while loop calls run_till_output again otherwise).                      *)
(***************************************************************************)
AfterIteration(c, r) ==
    IF r.fault # "none" THEN c
    ELSE IF ~r.brk THEN c
    ELSE IF c = "run_till_output" THEN "idle"
    ELSE IF r.done THEN "idle" ELSE c

(***************************************************************************)
(* One iteration of the loop of run_till_output, inside either call.       *)
(***************************************************************************)
Iteration(r) ==
    \E c \in {AfterIteration(call, r)} :
        /\ bytecode' = r.bytecode
        /\ pc' = r.pc
        /\ inputs' = r.inputs
        /\ outputs' = r.outputs
        /\ done' = r.done
        /\ relative_base' = r.relative_base
        /\ fault' = r.fault
        /\ call' = c
        /\ consumed' = IF r.popped THEN consumed + 1 ELSE consumed
        /\ last' = [pc |-> pc, inst |-> r.inst, wrote |-> r.wrote,
                    addrs |-> r.addrs]
        /\ ret' = IF c = "idle" THEN [kind |-> call, val |-> <<>>] ELSE NoRet
        /\ UNCHANGED <<cvars, program, supplied, entry>>

run_till_output_loop ==
    /\ call \in {"run_till_output", "run"}
    /\ fault = "none"
    /\ \E r \in {Exec(VMState)} : Iteration(r)

\* get_last_output with unwrap_or(0) in the place of unwrap
get_last_output_or_default ==
    /\ CanCall
    /\ fault' = fault
    /\ ret' = [kind |-> "get_last_output",
               val |-> IF outputs = <<>> THEN <<0>>
                       ELSE <<outputs[Len(outputs)]>>]
    /\ UNCHANGED <<cvars, vmvars, call, program, supplied, consumed, entry, last>>

(***************************************************************************)
(* VM::get_last_output: outputs.last().unwrap().                           *)
(***************************************************************************)
get_last_output ==
    /\ CanCall
    /\ IF outputs = <<>>
       THEN /\ fault' = "EmptyOutputLog"
            /\ ret' = NoRet
       ELSE /\ fault' = fault
            /\ ret' = [kind |-> "get_last_output",
                       val |-> <<outputs[Len(outputs)]>>]
    /\ UNCHANGED <<cvars, vmvars, call, program, supplied, consumed, entry, last>>

(***************************************************************************)
(* VM::outputs: a clone of the output log.                                 *)
(***************************************************************************)
outputs_clone ==
    /\ CanCall
    /\ ret' = [kind |-> "outputs", val |-> outputs]
    /\ UNCHANGED <<cvars, vmvars, fault, call, program, supplied, consumed, entry, last>>

(***************************************************************************)
(* VM::bytecode: a clone of the memory.                                    *)
(***************************************************************************)
bytecode_clone ==
    /\ CanCall
    /\ ret' = [kind |-> "bytecode", val |-> bytecode]
    /\ UNCHANGED <<cvars, vmvars, fault, call, program, supplied, consumed, entry, last>>

SetInputs == \E v \in Slices : set_inputs(v)

Next ==
    \/ SetInputs
    \/ run_till_output
    \/ run
    \/ run_till_output_loop
    \/ get_last_output
    \/ outputs_clone
    \/ bytecode_clone

Spec == Init /\ [][Next]_vars

(***************************************************************************)
(* The VM on the programs of Add, Multiply and Halt.                       *)
(***************************************************************************)
InitOn(progs) ==
    /\ program \in progs
    /\ bytecode = new(program).bytecode
    /\ pc = new(program).pc
    /\ inputs = new(program).inputs
    /\ outputs = new(program).outputs
    /\ done = new(program).done
    /\ relative_base = new(program).relative_base
    /\ entry = [call |-> "none", vm |-> new(program)]
    /\ fault = "none"
    /\ call = "idle"
    /\ supplied = <<>>
    /\ consumed = 0
    /\ last = NoLast
    /\ ret = NoRet
    /\ NoCircuit

InitArith == InitOn(ArithPrograms)

SpecArith == InitArith /\ [][Next]_vars

(***************************************************************************)
(* The same programs under the callers that only run them.  A call in      *)
(* progress keeps executing: the loop of run_till_output is the only code  *)
(* running, so an enabled iteration is eventually taken.                   *)
(***************************************************************************)
NextRun ==
    \/ run
    \/ run_till_output
    \/ run_till_output_loop

SpecRun == InitArith /\ [][NextRun]_vars /\ WF_vars(run_till_output_loop)

(***************************************************************************)
(* Words beyond 32 bits.  The source computes in i64; here a word that may *)
(* be large is the sequence of its base-10^4 digits, lowest first, without *)
(* leading zero digits (zero is the empty sequence), and sums and products *)
(* are computed digit by digit, so that they are the exact i64 results as  *)
(* long as these stay below 2^63.  The words are not negative.             *)
(***************************************************************************)
WideBase == 10 ^ 4

RECURSIVE ToWide(_)
ToWide(n) == IF n = 0 THEN <<>> ELSE <<n % WideBase>> \o ToWide(n \div WideBase)

\* the integer a wide word stands for, for the words that are addresses
\* or instruction words
RECURSIVE Narrow(_)
Narrow(w) == IF w = <<>> THEN 0 ELSE Head(w) + WideBase * Narrow(Tail(w))

\* the wide word mod 10^8: all that the decoding of an instruction reads
LowWord(w) == Narrow(IF Len(w) <= 2 THEN w ELSE SubSeq(w, 1, 2))

RECURSIVE Trim(_)
Trim(w) ==
    IF w # <<>> /\ w[Len(w)] = 0 THEN Trim(SubSeq(w, 1, Len(w) - 1)) ELSE w

RECURSIVE AddCarry(_, _, _)
AddCarry(a, b, c) ==
    IF a = <<>> /\ b = <<>> THEN ToWide(c)
    ELSE LET x == (IF a = <<>> THEN 0 ELSE Head(a))
                  + (IF b = <<>> THEN 0 ELSE Head(b)) + c
         IN  <<x % WideBase>>
               \o AddCarry(IF a = <<>> THEN a ELSE Tail(a),
                           IF b = <<>> THEN b ELSE Tail(b), x \div WideBase)

RECURSIVE MulDigit(_, _, _)
MulDigit(a, d, c) ==
    IF a = <<>> THEN ToWide(c)
    ELSE LET x == Head(a) * d + c
         IN  <<x % WideBase>> \o MulDigit(Tail(a), d, x \div WideBase)

\* v1 + v2
WideAdd(a, b) == Trim(AddCarry(a, b, 0))

\* a product kept to its two lowest digits, as a narrower integer would
RECURSIVE WideMulNarrow(_, _)
WideMulNarrow(a, b) ==
    IF b = <<>> THEN <<>>
    ELSE LET rest == WideMulNarrow(a, Tail(b))
             full == Trim(AddCarry(MulDigit(a, Head(b), 0),
                            IF rest = <<>> THEN rest ELSE <<0>> \o rest, 0))
         IN  Trim(IF Len(full) <= 2 THEN full ELSE SubSeq(full, 1, 2))

\* v1 * v2
RECURSIVE WideMul(_, _)
WideMul(a, b) ==
    IF b = <<>> THEN <<>>
    ELSE LET rest == WideMul(a, Tail(b))
         IN  Trim(AddCarry(MulDigit(a, Head(b), 0),
                           IF rest = <<>> THEN rest ELSE <<0>> \o rest, 0))

RECURSIVE WideLess(_, _)
WideLess(a, b) ==
    IF Len(a) # Len(b) THEN Len(a) < Len(b)
    ELSE IF a = <<>> THEN FALSE
    ELSE LET n == Len(a)
         IN  IF a[n] # b[n] THEN a[n] < b[n]
             ELSE WideLess(SubSeq(a, 1, n - 1), SubSeq(b, 1, n - 1))

\* i64::MAX, 9223372036854775807
I64Max == <<5807, 5477, 368, 3372, 922>>

WideFits(w) == ~WideLess(I64Max, w)

WideStoreResult(op, v1, v2) ==
    CASE op = "Add" -> WideAdd(v1, v2)
      [] op = "Multiply" -> WideMul(v1, v2)

\* get_next_instruction on wide memory: the operand of a Position slot is
\* an address and is kept as an integer, an Immediate operand stays wide
WideInstruction(mem, p) ==
    LET d == get_next_instruction([k \in 1..Len(mem) |-> LowWord(mem[k])], p)
    IN  IF d.fault # "none" THEN d
        ELSE [d EXCEPT !.operands =
                 [k \in 1..Len(d.operands) |->
                    Operand(IF d.operands[k].mode = "Immediate"
                            THEN mem[p + 1 + k] ELSE Narrow(mem[p + 1 + k]),
                            d.operands[k].mode)]]

\* the Add and Multiply arms on wide words
ExecWideStore(vm, i) ==
    LET b == Base(vm, i)
        rb == vm.relative_base
        r1 == get_value(vm.bytecode, rb, i.operands[1])
        r2 == get_value(r1.mem, rb, i.operands[2])
        d == get_absolute_address(rb, i.operands[3])
        w == set_mem(r2.mem, d.addr, WideStoreResult(i.op, r1.val, r2.val))
    IN  IF r1.fault # "none"
        THEN [b EXCEPT !.bytecode = r1.mem, !.fault = r1.fault,
                       !.addrs = r1.addrs]
        ELSE IF r2.fault # "none"
        THEN [b EXCEPT !.bytecode = r2.mem, !.fault = r2.fault,
                       !.addrs = r1.addrs \cup r2.addrs]
        ELSE IF d.fault # "none"
        THEN [b EXCEPT !.bytecode = r2.mem, !.fault = d.fault,
                       !.addrs = r1.addrs \cup r2.addrs]
        ELSE IF w.fault # "none"
        THEN [b EXCEPT !.bytecode = w.mem, !.fault = w.fault,
                       !.addrs = r1.addrs \cup r2.addrs \cup {d.addr}]
        ELSE [b EXCEPT !.bytecode = w.mem, !.pc = @ + 4, !.wrote = w.wrote,
                       !.addrs = r1.addrs \cup r2.addrs \cup {d.addr}]

\* one iteration of the loop on wide memory, for the programs of Add,
\* Multiply, Output and Halt
WideExec(vm) ==
    LET i == WideInstruction(vm.bytecode, vm.pc)
    IN  IF i.fault # "none" THEN [Base(vm, i) EXCEPT !.fault = i.fault]
        ELSE CASE i.op = "Halt" -> ExecHalt(vm, i)
               [] i.op \in {"Add", "Multiply"} -> ExecWideStore(vm, i)
               [] i.op = "Output" -> ExecOutput(vm, i)

run_till_output_loop_wide ==
    /\ call \in {"run_till_output", "run"}
    /\ fault = "none"
    /\ \E r \in {WideExec(VMState)} : Iteration(r)

\* 1125899906842624, the large_number of test_large_numbers
LargeNumber == <<2624, 684, 8999, 1125>>

LargeNumberProgram == <<ToWide(104), LargeNumber, ToWide(99)>>

SixteenDigitProgram ==
    <<ToWide(1102), ToWide(34915192), ToWide(34915192), ToWide(7),
      ToWide(4), ToWide(7), ToWide(99), ToWide(0)>>

\* 0, 1, the factor of the test, the largest root of a square below 2^53,
\* 2^50, 2^53 - 1 and 2^53
WideVals ==
    { ToWide(0), ToWide(1), ToWide(34915192), ToWide(94906265), LargeNumber,
      <<991, 5474, 1992, 9007>>, <<992, 5474, 1992, 9007>> }

\* an operation and two words whose sum or product fits i64
FittingOperands ==
    { t \in {"Add", "Multiply"} \X WideVals \X WideVals :
        WideFits(WideStoreResult(t[1], t[2], t[3])) }

\* the operation on two immediate words, then the Output of the result
ImmediateProgram(t) ==
    <<ToWide(IF t[1] = "Add" THEN 1101 ELSE 1102), t[2], t[3], ToWide(7),
      ToWide(4), ToWide(7), ToWide(99), ToWide(0)>>

\* the operation on two words in memory, then the Output of the result
PositionProgram(t) ==
    <<ToWide(IF t[1] = "Add" THEN 1 ELSE 2), ToWide(8), ToWide(9), ToWide(7),
      ToWide(4), ToWide(7), ToWide(99), ToWide(0), t[2], t[3]>>

WidePrograms ==
    { <<ToWide(104), v, ToWide(99)>> : v \in WideVals }
    \cup { ImmediateProgram(t) : t \in FittingOperands }
    \cup { PositionProgram(t) : t \in FittingOperands }

InitWide == InitOn(WidePrograms)

NextWide ==
    run \/ run_till_output \/ run_till_output_loop_wide \/ get_last_output

SpecWide == InitWide /\ [][NextWide]_vars

(***************************************************************************)
(* Loops of jumps beside programs that run straight through, under the     *)
(* same fairness: a call in progress keeps executing.                      *)
(***************************************************************************)
InitLoop == InitOn(LoopPrograms \cup OneOperandPrograms)

SpecLoop == InitLoop /\ [][NextRun]_vars /\ WF_vars(run_till_output_loop)

(***************************************************************************)
(* The VM on the programs of the tests and the small programs, under every *)
(* caller.                                                                 *)
(***************************************************************************)
InitCalls == InitOn(TestPrograms \cup OtherPrograms)

SpecCalls == InitCalls /\ [][Next]_vars

(***************************************************************************)
(* The callers of the tests of vm.rs: at most one call of set_inputs, with *)
(* a slice of one value, and then the VM is run.                           *)
(***************************************************************************)
TestInputs == {-7, 0, 1, 9}

SetOneInput == \E x \in TestInputs : supplied = <<>> /\ set_inputs(<<x>>)

NextTest ==
    \/ SetOneInput
    \/ run
    \/ run_till_output
    \/ run_till_output_loop

InitJump == InitOn(JumpPrograms)

InitCompare == InitOn(ComparePrograms)

SpecCompare == InitCompare /\ [][NextTest]_vars

InitOperands == InitOn(OperandPrograms)

SpecOperands == InitOperands /\ [][NextTest]_vars

SpecJump == InitJump /\ [][NextTest]_vars

(***************************************************************************)
(* Programs that read up to two inputs between their outputs, under every  *)
(* caller: the inputs arrive in one slice or two, before or between the    *)
(* calls of run() and run_till_output.                                     *)
(***************************************************************************)
InputPrograms ==
    { <<3, 5, 4, 5, 99, 0>>,
      <<3, 9, 4, 9, 3, 9, 4, 9, 99, 0>>,
      <<3, 11, 3, 12, 1, 11, 12, 13, 4, 13, 99, 0, 0, 0>>,
      <<3, 13, 1005, 13, 8, 104, 1, 99, 3, 14, 4, 14, 99, 0, 0>>,
      <<104, 1, 3, 7, 4, 7, 99, 0>>,
      <<109, 100, 109, 25, 109, -20, 203, 50, 103, 50, 99>> }

InitInputs == InitOn(InputPrograms)

SpecInputs == InitInputs /\ [][Next]_vars

(***************************************************************************)
(* Programs whose instruction words carry digits in the mode places of     *)
(* slots the opcode has no operand for, and above the ten-thousands place, *)
(* next to the same programs without them.                                 *)
(***************************************************************************)
UnreadDigitPrograms ==
    { <<b + j, 0, 99 + k>> :
        b \in {3, 4, 104, 204, 9, 109},
        j \in {0, 1000, 9000, 30000, 100000, 1000000},
        k \in {0, 3000} }
    \cup { <<b + j, 1, 4, 99, 104, 8, 99 + k>> :
             b \in {5, 1105, 6, 1006},
             j \in {0, 10000, 30000, 90000, 100000},
             k \in {0, 100, 90000} }
    \cup { <<b + j, 7, 8, 9, 30004, 9, 99, 2, 3, 0>> :
             b \in {1, 2, 7, 8, 1101},
             j \in {0, 100000, 1000000, 1100000} }

InitUnread == InitOn(UnreadDigitPrograms)

SpecUnread == InitUnread /\ [][NextTest]_vars

(***************************************************************************)
(* The decoder on its own: Mode::parse and get_next_instruction applied to *)
(* one instruction word, as the test test_parse_mode applies them.         *)
(***************************************************************************)
\* words beyond MaxWord: digits above 2 and places above the ten-thousands
ExtraWords == {30001, 91101, 100001, 122202, 1000004, 1011101}

Words == (-MaxNegWord..MaxWord) \cup ExtraWords

InitDecode ==
    /\ program \in { <<w, 0, 0, 0>> : w \in Words }
    /\ bytecode = new(program).bytecode
    /\ pc = new(program).pc
    /\ inputs = new(program).inputs
    /\ outputs = new(program).outputs
    /\ done = new(program).done
    /\ relative_base = new(program).relative_base
    /\ entry = [call |-> "none", vm |-> new(program)]
    /\ fault = "none"
    /\ call = "idle"
    /\ supplied = <<>>
    /\ consumed = 0
    /\ last = NoLast
    /\ ret = NoRet
    /\ NoCircuit

\* Mode::parse(m, index) on the word: the call and what it returns
mode_parse(index) ==
    /\ ret = NoRet
    /\ last = NoLast
    /\ ret' = [kind |-> "Mode::parse",
               val |-> <<bytecode[1], index, ModeParse(bytecode[1], index)>>]
    /\ UNCHANGED <<cvars, vmvars, fault, call, program, supplied, consumed, entry,
                   last>>

\* get_next_instruction on the word at pc: the Instruction or the panic
fetch ==
    /\ ret = NoRet
    /\ last = NoLast
    /\ LET i == get_next_instruction(bytecode, pc)
       IN  /\ last' = [pc |-> pc, inst |-> i, wrote |-> {}, addrs |-> {}]
           /\ fault' = i.fault
    /\ UNCHANGED <<cvars, vmvars, call, program, supplied, consumed, entry, ret>>

ParseAny == \E index \in 0..2 : mode_parse(index)

NextDecode ==
    \/ ParseAny
    \/ fetch

SpecDecode == InitDecode /\ [][NextDecode]_vars

(***************************************************************************)
(* Properties.                                                             *)
(***************************************************************************)
IsPrefix(s, t) == Len(s) <= Len(t) /\ SubSeq(t, 1, Len(s)) = s

\* the latest call of run_till_output, made on a VM that was not halted
InRunTillOutput == entry.call = "run_till_output" /\ ~entry.vm.done

\* C1: a call of run_till_output on a VM that is not halted appends nothing
\* while it runs, and when it returns it has either appended exactly one
\* value to the log it found, left the VM not halted and pc just past the
\* Output instruction it executed last, or appended nothing and left the VM
\* halted.
C1_OneOutputOrHalt ==
    /\ (InRunTillOutput /\ call = "run_till_output") =>
          outputs = entry.vm.outputs
    /\ (InRunTillOutput /\ call = "idle") =>
          \/ /\ Len(outputs) = Len(entry.vm.outputs) + 1
             /\ IsPrefix(entry.vm.outputs, outputs)
             /\ ~done
             /\ last.inst.op = "Output"
             /\ pc = last.pc + 2
          \/ /\ outputs = entry.vm.outputs
             /\ done
             /\ last.inst.op = "Halt"

\* the second of two successive calls has returned with the second output
C1_Witness ==
    /\ InRunTillOutput
    /\ call = "idle"
    /\ entry.vm.outputs = <<7>>
    /\ outputs = <<7, 2>>
    /\ ~done

\* C2: done is never cleared, and a call of run or run_till_output on a
\* halted VM returns at once with memory, pc, relative base, input queue and
\* output log unchanged.
C2_HaltedTerminal ==
    [][done =>
         /\ done'
         /\ (run \/ run_till_output) =>
               (UNCHANGED vmvars /\ call' = "idle" /\ fault' = fault)]_vars

\* run was called on a halted VM that holds a queued input and an output
C2_Witness ==
    /\ entry.call = "run"
    /\ entry.vm.done
    /\ ret.kind = "run"
    /\ done
    /\ inputs # <<>>
    /\ outputs # <<>>

\* C3: every non-negative address an operand read or an instruction write
\* resolved to was accessed without an out-of-bounds panic, and memory is
\* longer than the address afterwards.
C3_MemoryValidity ==
    \A a \in last.addrs :
        a >= 0 => (fault # "IndexOutOfBounds" /\ Len(bytecode) > a)

\* the cells of the step's new memory that differ from what they held
\* before (0 for a cell that did not exist)
ChangedCells ==
    {i \in 1..Len(bytecode') :
        bytecode'[i] # (IF i <= Len(bytecode) THEN bytecode[i] ELSE 0)}

RelativeProgram == <<109, 100, 109, 25, 109, -20, 203, 50, 103, 50, 99>>

\* C4: no step shrinks memory; every cell that existed keeps its value and
\* every new cell is 0, except the one cell the instruction stores to.
\* After the relative-base program with inputs 111 and 55, cell 155 is 111,
\* cell 50 is 55 and every other cell beyond the program is 0.
C4_GrowthKeepsCells ==
    /\ [][bytecode' # bytecode =>
            LET changed == ChangedCells
            IN  /\ Len(bytecode') >= Len(bytecode)
                /\ Cardinality(changed) <= 1
                /\ \A i \in changed : (i - 1) \in last'.wrote]_vars
    /\ []((program = RelativeProgram /\ supplied = <<111, 55>> /\ done) =>
            /\ Len(bytecode) > 155
            /\ \A i \in (Len(program) + 1)..Len(bytecode) :
                  bytecode[i] = (CASE i = 156 -> 111
                                   [] i = 51 -> 55
                                   [] OTHER -> 0))

\* the relative-base program has halted after its two stores beyond the
\* program
C4_Witness ==
    /\ program = RelativeProgram
    /\ done
    /\ fault = "none"
    /\ Len(bytecode) > Len(program)
    /\ bytecode[156] = 111
    /\ bytecode[51] = 55

\* C5: the input queue holds the values ever supplied, in the order
\* supplied, less those the Input instructions executed so far have
\* removed; the k-th Input instruction stores the k-th value supplied.
C5_InputFifo ==
    /\ consumed <= Len(supplied)
    /\ inputs = SubSeq(supplied, consumed + 1, Len(supplied))
    /\ (last.inst.op = "Input" /\ fault = "none") =>
          /\ consumed >= 1
          /\ \E a \in last.wrote : bytecode[a + 1] = supplied[consumed]

\* the second Input instruction has stored the second value, which was
\* supplied after the first had been consumed and echoed
C5_Witness ==
    /\ consumed = 2
    /\ supplied = <<111, 55>>
    /\ entry.vm.inputs = <<55>>
    /\ entry.vm.outputs = <<111>>
    /\ last.inst.op = "Input"
    /\ last.wrote = {1}
    /\ bytecode[2] = 55

\* C6: an Input instruction that finds the queue empty aborts the call:
\* the panic is raised, no cell is written, and memory, pc, relative base
\* and output log stay as they were; the call neither returns nor goes on.
C6_InputExhausted ==
    [][/\ (/\ call # "idle"
           /\ fault = "none"
           /\ last'.inst.fault = "none"
           /\ last'.inst.op = "Input"
           /\ inputs = <<>>) =>
              /\ fault' = "InputExhausted"
              /\ UNCHANGED vmvars
              /\ call' = call
       /\ (fault = "none" /\ fault' = "InputExhausted") =>
              /\ inputs = <<>>
              /\ last'.inst.op = "Input"
       /\ fault # "none" => UNCHANGED vars]_vars

\* the second Input instruction found the queue empty after the first
\* value had been echoed
C6_Witness ==
    /\ fault = "InputExhausted"
    /\ consumed = 1
    /\ outputs = <<111>>
    /\ pc = 4

\* a loop iteration: the only step a call in progress can take
InLoop == call # "idle" /\ fault = "none"

WriteOps == {"Add", "Multiply", "Input", "LessThan", "Equals"}

\* the operand of a storing instruction that names the destination
WriteOperand(i) == i.operands[Len(i.operands)]

\* the write address the specification gives for a Position or Relative
\* operand
WriteAddr(o) ==
    IF o.mode = "Relative" THEN o.value + relative_base ELSE o.value

\* the step wrote no cell: every old cell keeps its value, new cells are 0
NoCellWritten ==
    last'.wrote = {} /\ (bytecode' = bytecode \/ ChangedCells = {})

\* the step stored to address a and to no other cell
WroteOnlyAt(a) ==
    last'.wrote = {a} /\ (bytecode' = bytecode \/ ChangedCells \subseteq {a + 1})

\* C7 as stated: for each of Add, Multiply, Input, LessThan and Equals an
\* Immediate write target is a fatal error and no cell is written; a
\* Position target resolves to the raw value, a Relative one to raw value +
\* relative_base.
C7_ImmediateWriteFatal ==
    [][(InLoop /\ last'.inst.fault = "none" /\ last'.inst.op \in WriteOps) =>
          LET o == WriteOperand(last'.inst)
          IN  /\ o.mode = "Immediate" => (fault' # "none" /\ NoCellWritten)
              /\ (o.mode # "Immediate" /\ fault' = "none") =>
                    WroteOnlyAt(WriteAddr(o))]_vars

\* C7 amended: for Add, Multiply, LessThan and Equals an Immediate write
\* target is a fatal error and no cell is written; Input does not look at
\* an Immediate mode and stores at the raw value as for Position; a
\* Position target resolves to the raw value, a Relative one to raw value +
\* relative_base.
C7_ImmediateWriteFatalButInput ==
    [][(InLoop /\ last'.inst.fault = "none" /\ last'.inst.op \in WriteOps) =>
          LET o == WriteOperand(last'.inst)
              op == last'.inst.op
          IN  /\ (o.mode = "Immediate" /\ op # "Input") =>
                    /\ fault' \in {"InvalidWriteTarget", "IndexOutOfBounds",
                                   "AddressOverflow"}
                    /\ NoCellWritten
              /\ (o.mode = "Immediate" /\ op = "Input" /\ inputs # <<>>
                    /\ InBounds(bytecode, o.value)) =>
                    fault' = "none"
              /\ ((o.mode # "Immediate" \/ op = "Input") /\ fault' = "none") =>
                    WroteOnlyAt(WriteAddr(o))]_vars

\* an Add whose destination is Immediate panicked after its two reads
C7_Witness ==
    /\ fault = "InvalidWriteTarget"
    /\ last.inst.op = "Add"
    /\ last.inst.operands[3].mode = "Immediate"
    /\ bytecode = program

\* the value the specification gives an operand in the current state
CellOrZero(a) == IF InBounds(bytecode, a) THEN bytecode[a + 1] ELSE 0

OperandValue(o) ==
    CASE o.mode = "Immediate" -> o.value
      [] o.mode = "Position" -> CellOrZero(o.value)
      [] o.mode = "Relative" -> CellOrZero(o.value + relative_base)

\* C8: every step leaves the old output log a prefix of the new one; only
\* an Output instruction extends it, by exactly the value of its operand;
\* outputs() returns the log and leaves it as it is.
C8_AppendOnly ==
    [][/\ IsPrefix(outputs, outputs')
       /\ outputs' # outputs =>
             /\ InLoop
             /\ last'.inst.op = "Output"
             /\ outputs' = Append(outputs, OperandValue(last'.inst.operands[1]))
       /\ (InLoop /\ last'.inst.op = "Output" /\ fault' = "none") =>
             Len(outputs') = Len(outputs) + 1
       /\ outputs_clone => (ret'.val = outputs /\ outputs' = outputs)]_vars

\* outputs() returned a log of two values
C8_Witness ==
    /\ ret.kind = "outputs"
    /\ ret.val = <<7, 2>>
    /\ outputs = <<7, 2>>

\* C9: get_last_output returns the last entry of the output log and
\* changes nothing of the VM; on an empty log it panics.
C9_GetLastOutput ==
    [][get_last_output =>
          /\ UNCHANGED vmvars
          /\ IF outputs = <<>>
             THEN fault' = "EmptyOutputLog" /\ ret' = NoRet
             ELSE /\ fault' = fault
                  /\ ret'.kind = "get_last_output"
                  /\ ret'.val = <<outputs[Len(outputs)]>>]_vars

\* get_last_output panicked on a VM that halted without any output
C9_Witness ==
    /\ fault = "EmptyOutputLog"
    /\ done
    /\ outputs = <<>>

\* the decimal digit of v at place 10^k
Digit(v, k) == (v \div (10 ^ k)) % 10

ModeName == [d \in 0..2 |-> <<"Position", "Immediate", "Relative">>[d + 1]]

\* the mode the specification gives slot i of word v
IsModeOfSlot(mode, v, i) ==
    Digit(v, i + 2) \in 0..2 /\ mode = ModeName[Digit(v, i + 2)]

\* C10: a decoded instruction word v has opcode v mod 100 and, for each
\* operand slot i, the mode named by the decimal digit of v at place
\* 10^(i+2); Mode::parse(v, i) returns that mode whenever the digit is 0, 1
\* or 2 (1002 gives Position, Immediate, Position; 11100 gives Immediate
\* three times).
C10_DecodeDigits ==
    /\ (last.inst.op # "none" /\ last.inst.fault = "none") =>
          /\ last.inst.code > 0
          /\ last.inst.opcode = last.inst.code % 100
          /\ Len(last.inst.operands) = NumOperands(last.inst.op)
          /\ \A i \in 1..Len(last.inst.operands) :
                IsModeOfSlot(last.inst.operands[i].mode, last.inst.code, i - 1)
    /\ (ret.kind = "Mode::parse" /\ ret.val[1] >= 0
          /\ Digit(ret.val[1], ret.val[2] + 2) \in 0..2) =>
          IsModeOfSlot(ret.val[3], ret.val[1], ret.val[2])
    /\ (ret.kind = "Mode::parse" /\ ret.val[1] = 1002) =>
          ret.val[3] = <<"Position", "Immediate", "Position">>[ret.val[2] + 1]
    /\ (ret.kind = "Mode::parse" /\ ret.val[1] = 11100) =>
          ret.val[3] = "Immediate"

\* the word 1002 was decoded as a Multiply of a Position, an Immediate and
\* a Position operand
C10_Witness ==
    /\ last.inst.code = 1002
    /\ last.inst.fault = "none"
    /\ last.inst.op = "Multiply"
    /\ last.inst.operands[1].mode = "Position"
    /\ last.inst.operands[2].mode = "Immediate"
    /\ last.inst.operands[3].mode = "Position"

(***************************************************************************)
(* Unknown opcodes.                                                        *)
(***************************************************************************)
KnownOpcodes == (1..9) \cup {99}

\* the word under pc, when there is one
WordAtPc == bytecode[pc + 1]

\* C11: when the loop fetches a word that is zero, negative, or whose value
\* mod 100 is none of 1..9 and 99, the step is a fatal decoding error: the
\* VM panics on the unknown opcode and memory, pc, relative base, input
\* queue and output log are what they were before the fetch.
C11_UnknownOpcodeFatal ==
    [][(InLoop /\ InBounds(bytecode, pc)
          /\ (WordAtPc <= 0 \/ (WordAtPc % 100) \notin KnownOpcodes))
        => /\ fault' = "UnknownOpcode"
           /\ UNCHANGED vmvars]_vars

\* an unknown opcode met after an output was made, and a negative word
\* whose floored remainder would name an opcode
C11_Witness ==
    /\ fault = "UnknownOpcode"
    /\ \/ outputs = <<7>> /\ pc = 2
       \/ last.inst.code = -97

(***************************************************************************)
(* Unknown mode digits.                                                    *)
(***************************************************************************)
\* the number of operand slots the instruction with opcode number n reads
SlotsRead(n) ==
    CASE n \in {1, 2, 7, 8} -> 3
      [] n \in {5, 6} -> 2
      [] n \in {3, 4, 9} -> 1
      [] OTHER -> 0

\* some slot that the word w reads has a mode digit beyond 2
HasBadModeDigit(w) ==
    \E k \in 0..(SlotsRead(w % 100) - 1) : Digit(w, k + 2) \notin {0, 1, 2}

\* C12: when the loop decodes a word with a known opcode in which the mode
\* digit of a slot the opcode reads is none of 0, 1, 2, the step is a fatal
\* decoding error and memory, pc, relative base, input queue and output log
\* are what they were before; the panic is the one of the mode digit when
\* all the operand cells of the instruction lie in memory.
C12_UnknownModeFatal ==
    [][(InLoop /\ InBounds(bytecode, pc) /\ WordAtPc > 0
          /\ (WordAtPc % 100) \in KnownOpcodes /\ HasBadModeDigit(WordAtPc))
        => /\ fault' \in {"UnknownMode", "FetchOutOfBounds"}
           /\ InBounds(bytecode, pc + SlotsRead(WordAtPc % 100))
                => fault' = "UnknownMode"
           /\ UNCHANGED vmvars]_vars

\* a bad digit in the third slot, and one met after the relative base and
\* the output log have changed
C12_Witness ==
    /\ fault = "UnknownMode"
    /\ \/ last.inst.code = 30007
       \/ outputs = <<7>> /\ relative_base = 4 /\ last.inst.code = 3001

(***************************************************************************)
(* The program counter after one instruction.                              *)
(***************************************************************************)
\* operand slot k (from 0) of the instruction under pc, read off memory
\* and the digits of the instruction word
Slot(k) ==
    [value |-> bytecode[pc + 2 + k], mode |-> ModeName[Digit(WordAtPc, k + 2)]]

SlotValue(k) == OperandValue(Slot(k))

\* the instruction under pc, with opcode number n, is a jump that is taken
IsTakenJump(n) ==
    \/ n = 5 /\ SlotValue(0) # 0
    \/ n = 6 /\ SlotValue(0) = 0

\* pc after the instruction under pc, when it is no taken jump
SteppedPc(n) ==
    CASE n \in {1, 2, 7, 8} -> pc + 4
      [] n \in {3, 4, 9} -> pc + 2
      [] n \in {5, 6} -> pc + 3
      [] n = 99 -> pc + 1

\* C13: after one instruction at pc = p executes without fault, pc is p + 4
\* for Add, Multiply, LessThan and Equals, p + 2 for Input, Output and
\* AdjustRelativeBase, p + 3 for a jump that is not taken, value(op1) for a
\* jump that is taken, and p + 1 for Halt, which also sets done; the
\* program 1,0,0,0,99 ends with pc = 5.
C13_PcAdvance ==
    /\ [][(InLoop /\ fault' = "none") =>
            LET n == WordAtPc % 100
            IN  /\ pc' = IF IsTakenJump(n) THEN SlotValue(1) ELSE SteppedPc(n)
                /\ n = 99 => done']_vars
    /\ [](program = <<1, 0, 0, 0, 99>> /\ done => pc = 5)

\* C13, amended: as C13, but pc is value(op1) after a taken jump only when
\* value(op1) is not negative; a negative value(op1) wraps in the cast to
\* usize and leaves pc beyond the end of memory.
C13_PcAdvanceUnlessNegativeTarget ==
    /\ [][(InLoop /\ fault' = "none") =>
            LET n == WordAtPc % 100
            IN  /\ (IsTakenJump(n) /\ SlotValue(1) >= 0) => pc' = SlotValue(1)
                /\ (IsTakenJump(n) /\ SlotValue(1) < 0) =>
                      /\ pc' = SlotValue(1) + UsizeModulus
                      /\ ~InBounds(bytecode', pc')
                /\ ~IsTakenJump(n) => pc' = SteppedPc(n)
                /\ n = 99 => done']_vars
    /\ [](program = <<1, 0, 0, 0, 99>> /\ done => pc = 5)

\* a JumpIfTrue at pc = 2 was taken to cell 9 on a non-zero input
C13_Witness ==
    /\ last.inst.op = "JumpIfTrue" /\ pc = 9 /\ last.pc = 2
    /\ supplied # <<>> /\ fault = "none"

(***************************************************************************)
(* Programs of Add, Multiply and Halt with positional operands in memory,  *)
(* and their reference interpretation.                                     *)
(***************************************************************************)
\* the instruction at p is a Halt, or an Add or Multiply whose three
\* operands are addresses inside mem
IsPlainArith(mem, p) ==
    /\ InBounds(mem, p)
    /\ \/ mem[p + 1] = 99
       \/ /\ mem[p + 1] \in {1, 2}
          /\ InBounds(mem, p + 3)
          /\ \A k \in 1..3 : InBounds(mem, mem[p + 1 + k])

\* the memory the reference interpretation ends with from pc = p: at each
\* step mem[c] = mem[a] + mem[b] or mem[a] * mem[b], then four cells on,
\* until a Halt; <<>> when it meets an instruction that is not plain
RECURSIVE Reference(_, _)
Reference(mem, p) ==
    IF ~IsPlainArith(mem, p) THEN <<>>
    ELSE IF mem[p + 1] = 99 THEN mem
    ELSE LET a == mem[p + 2]
             b == mem[p + 3]
             c == mem[p + 4]
             v == IF mem[p + 1] = 1 THEN mem[a + 1] + mem[b + 1]
                  ELSE mem[a + 1] * mem[b + 1]
         IN  Reference([mem EXCEPT ![c + 1] = v], p + 4)

\* the program executes only plain Add, Multiply and Halt instructions
PlainArithProgram == Reference(program, 0) # <<>>

\* C14: for a program that executes only Add, Multiply and Halt with
\* positional operands inside memory, no instruction faults and the memory
\* of the halted VM is the memory the reference interpretation ends with,
\* also when an instruction overwrites later instructions; 1,0,0,0,99 ends
\* as 2,0,0,0,99.
C14_ArithmeticReference ==
    /\ PlainArithProgram =>
          /\ fault \in {"none", "EmptyOutputLog"}
          /\ done => bytecode = Reference(program, 0)
    /\ (program = <<1, 0, 0, 0, 99>> /\ done) => bytecode = <<2, 0, 0, 0, 99>>

\* run() returned on a program whose Add turned the Halt at cell 4 into a
\* Multiply, which was then executed
C14_Witness ==
    /\ program = <<1, 1, 1, 4, 99, 5, 6, 0, 99>>
    /\ entry.call = "run" /\ call = "idle" /\ done
    /\ bytecode = <<30, 1, 1, 4, 2, 5, 6, 0, 99>>

\* C15: on a program that executes only Add, Multiply and Halt with
\* positional operands inside memory, every iteration fetches inside
\* memory, every step that is no Halt moves pc on by exactly 4 without a
\* fault, and a call of run() leads to the halted VM with the call returned.
C15_ArithmeticTerminates ==
    /\ [][(PlainArithProgram /\ InLoop) =>
            /\ InBounds(bytecode, pc)
            /\ WordAtPc # 99 =>
                  (pc' = pc + 4 /\ fault' = "none" /\ ~done')]_vars
    /\ (PlainArithProgram /\ call = "run") ~> (done /\ call = "idle")

\* run() is two instructions into a plain program and has not halted yet
C15_Witness ==
    /\ PlainArithProgram /\ call = "run" /\ pc = 8 /\ ~done

(***************************************************************************)
(* The jumps.                                                              *)
(***************************************************************************)
\* the word under pc is a JumpIfTrue or a JumpIfFalse
JumpUnderPc ==
    InBounds(bytecode, pc) /\ WordAtPc > 0 /\ (WordAtPc % 100) \in {5, 6}

\* the test programs output 0 on the input 0 and 1 on any other input
JumpTestsOutput ==
    (program \in JumpTestPrograms /\ done /\ supplied # <<>>) =>
        outputs = <<IF supplied[1] = 0 THEN 0 ELSE 1>>

\* C16: JumpIfTrue sets pc to value(op1) exactly when value(op0) is not
\* zero, JumpIfFalse exactly when it is zero, and otherwise pc advances by
\* 3; neither changes a memory cell value, the relative base, the input
\* queue or the output log; the two test programs output 0 on the input 0
\* and 1 on every other input.
C16_Jumps ==
    /\ [][(InLoop /\ JumpUnderPc) =>
            /\ NoCellWritten
            /\ UNCHANGED <<relative_base, inputs, outputs>>
            /\ fault' = "none" =>
                  pc' = IF IsTakenJump(WordAtPc % 100) THEN SlotValue(1)
                        ELSE pc + 3]_vars
    /\ []JumpTestsOutput

\* C16, amended: as C16, but a taken jump sets pc to value(op1) only when
\* value(op1) is not negative; a negative value(op1) wraps in the cast to
\* usize and leaves pc beyond the end of memory.
C16_JumpsUnlessNegativeTarget ==
    /\ [][(InLoop /\ JumpUnderPc) =>
            /\ NoCellWritten
            /\ UNCHANGED <<relative_base, inputs, outputs>>
            /\ fault' = "none" =>
                  LET taken == IsTakenJump(WordAtPc % 100)
                  IN  /\ (taken /\ SlotValue(1) >= 0) => pc' = SlotValue(1)
                      /\ (taken /\ SlotValue(1) < 0) =>
                            /\ pc' = SlotValue(1) + UsizeModulus
                            /\ ~InBounds(bytecode', pc')
                      /\ ~taken => pc' = pc + 3]_vars
    /\ []JumpTestsOutput

\* the position-mode test program has run to its Halt on a negative input
C16_Witness ==
    /\ program = <<3, 12, 6, 12, 15, 1, 13, 14, 13, 4, 13, 99, -1, 0, 1, 9>>
    /\ supplied = <<-7>> /\ done /\ outputs = <<1>>

(***************************************************************************)
(* The comparisons.                                                        *)
(***************************************************************************)
\* what the specification has a comparison with opcode number n store
Compared(n, v0, v1) ==
    IF n = 7 THEN (IF v0 < v1 THEN 1 ELSE 0) ELSE (IF v0 = v1 THEN 1 ELSE 0)

\* C17: LessThan stores 1 when value(op0) < value(op1) and 0 otherwise,
\* Equals stores 1 when value(op0) = value(op1) and 0 otherwise, for signed
\* values and every pair of modes of the two sources; the stored cell holds
\* 0 or 1 and no other cell value changes.
C17_Comparisons ==
    [][(InLoop /\ InBounds(bytecode, pc) /\ WordAtPc > 0
          /\ (WordAtPc % 100) \in {7, 8} /\ fault' = "none") =>
          LET t == WriteAddr(Slot(2))
          IN  /\ bytecode'[t + 1] =
                    Compared(WordAtPc % 100, SlotValue(0), SlotValue(1))
              /\ bytecode'[t + 1] \in {0, 1}
              /\ WroteOnlyAt(t)]_vars

\* a LessThan of the immediate -2 against a cell stored 1 over the 5 of
\* cell 9
C17_Witness ==
    /\ last.inst.op = "LessThan" /\ fault = "none"
    /\ last.inst.operands[1] = Operand(-2, "Immediate")
    /\ last.inst.operands[2].mode = "Relative"
    /\ bytecode[10] = 1

(***************************************************************************)
(* The relative base.                                                      *)
(***************************************************************************)
\* the word under pc is an AdjustRelativeBase
AdjustUnderPc ==
    InBounds(bytecode, pc) /\ WordAtPc > 0 /\ WordAtPc % 100 = 9

\* C18: the relative base is 0 before the first call; a step changes it
\* only by executing an AdjustRelativeBase, which adds value(op0) to it, so
\* that it is always the sum of the operand values of the
\* AdjustRelativeBase instructions executed so far (100, 125 and 105 along
\* the relative-base test program); every other instruction, set_inputs,
\* the getters and the return from and re-entry into run_till_output leave
\* it as it is.
C18_RelativeBase ==
    /\ [](entry.call = "none" => relative_base = 0)
    /\ [][relative_base' # relative_base => (InLoop /\ AdjustUnderPc)]_vars
    /\ [][(InLoop /\ AdjustUnderPc /\ fault' = "none") =>
            relative_base' = relative_base + SlotValue(0)]_vars
    /\ [](program = RelativeProgram =>
            relative_base = CASE pc = 0 -> 0
                              [] pc = 2 -> 100
                              [] pc = 4 -> 125
                              [] OTHER -> 105)

\* the relative-base test program has halted after its three adjustments
C18_Witness ==
    /\ program = RelativeProgram /\ done /\ relative_base = 105

(***************************************************************************)
(* The values of operands.                                                 *)
(***************************************************************************)
\* what the specification has a storing instruction with opcode number n
\* store
Stored(n, v0, v1) ==
    CASE n = 1 -> v0 + v1
      [] n = 2 -> v0 * v1
      [] OTHER -> Compared(n, v0, v1)

\* C19: every instruction that reads operand values and executes uses, for
\* an Immediate operand, its raw value, for a Position operand the memory
\* cell at the raw value, and for a Relative operand the memory cell at raw
\* value + relative base: Output appends that value, AdjustRelativeBase
\* adds it, the jumps test the first and go to the second, and Add,
\* Multiply, LessThan and Equals store the result on the two.
C19_OperandValues ==
    [][(InLoop /\ InBounds(bytecode, pc) /\ WordAtPc > 0 /\ fault' = "none") =>
          LET n == WordAtPc % 100
          IN  /\ n = 4 => outputs' = Append(outputs, SlotValue(0))
              /\ n = 9 => relative_base' = relative_base + SlotValue(0)
              /\ n \in {5, 6} =>
                    pc' = IF IsTakenJump(n) THEN AsUsize(SlotValue(1))
                          ELSE pc + 3
              /\ n \in {1, 2, 7, 8} =>
                    bytecode'[WriteAddr(Slot(2)) + 1] =
                        Stored(n, SlotValue(0), SlotValue(1))]_vars

\* an Add of a Relative and a Position operand under a relative base of 1
C19_Witness ==
    /\ last.inst.op = "Add" /\ fault = "none" /\ relative_base = 1
    /\ last.inst.operands[1] = Operand(3, "Relative")
    /\ last.inst.operands[2] = Operand(0, "Position")
    /\ bytecode[10] = 109

(***************************************************************************)
(* Negative addresses.                                                     *)
(***************************************************************************)
\* operand slot k of the instruction under pc resolves to a negative
\* address; the Input arm takes its operand as an address at every mode
NegativeSlot(k) ==
    /\ Slot(k).mode # "Immediate" \/ WordAtPc % 100 = 3
    /\ WriteAddr(Slot(k)) < 0

\* the instruction under pc, with opcode number n, comes to an operand
\* that resolves to a negative address
MeetsNegativeAddress(n) ==
    CASE n \in {3, 4, 9} -> NegativeSlot(0)
      [] n \in {5, 6} ->
            NegativeSlot(0) \/ (IsTakenJump(n) /\ NegativeSlot(1))
      [] n \in {1, 2, 7, 8} -> \E k \in 0..2 : NegativeSlot(k)
      [] OTHER -> FALSE

\* C20: when an instruction comes to a Position or Relative operand, read
\* or written, that resolves to a negative address, the step is a fatal
\* error: no cell is stored to and no cell value changes, pc, relative
\* base and output log stay as they are, the panic is the one of the
\* address when the operand is the first the instruction uses, and after a
\* panic the VM takes no further step.
C20_NegativeAddressFatal ==
    /\ [][(InLoop /\ last'.inst.fault = "none"
            /\ MeetsNegativeAddress(WordAtPc % 100)) =>
            /\ fault' # "none"
            /\ NoCellWritten
            /\ UNCHANGED <<pc, relative_base, outputs, done>>
            /\ (NegativeSlot(0) /\ (WordAtPc % 100 = 3 => inputs # <<>>)) =>
                  fault' = "AddressOverflow"]_vars
    /\ [][fault = "none"]_vars

\* a Relative operand under the relative base -5 resolved to a negative
\* address
C20_Witness ==
    /\ fault = "AddressOverflow" /\ relative_base = -5
    /\ last.inst.operands[1].mode = "Relative"
    /\ bytecode = program

(***************************************************************************)
(* run() against calls of run_till_output made one by one.                 *)
(***************************************************************************)
\* the VM record of an iteration's result
VMOf(r) ==
    [bytecode |-> r.bytecode, pc |-> r.pc, inputs |-> r.inputs,
     outputs |-> r.outputs, done |-> r.done, relative_base |-> r.relative_base]

\* one call of run_till_output on vm, followed for at most n iterations:
\* the VM it leaves and how it ends
RECURSIVE OneCall(_, _)
OneCall(vm, n) ==
    IF vm.done THEN [vm |-> vm, end |-> "returned", left |-> n]
    ELSE IF n = 0 THEN [vm |-> vm, end |-> "cut", left |-> 0]
    ELSE LET r == Exec(vm)
         IN  IF r.fault # "none"
             THEN [vm |-> VMOf(r), end |-> "panicked", left |-> n - 1]
             ELSE IF r.brk
             THEN [vm |-> VMOf(r), end |-> "returned", left |-> n - 1]
             ELSE OneCall(VMOf(r), n - 1)

\* a caller calling run_till_output on vm until the VM is halted
RECURSIVE StepByStep(_, _)
StepByStep(vm, n) ==
    IF vm.done THEN [vm |-> vm, end |-> "returned", left |-> n]
    ELSE LET c == OneCall(vm, n)
         IN  IF c.end # "returned" THEN c ELSE StepByStep(c.vm, c.left)

\* C21: when run() returns, the VM is halted and its memory, pc, relative
\* base, input queue and output log are those that calls of
\* run_till_output made one by one from the same VM, until it is halted,
\* end with; run() on a halted VM returns at once and changes nothing.
C21_RunIsRepeatedRunTillOutput ==
    /\ [][(call = "run" /\ call' = "idle") =>
            /\ done'
            /\ StepByStep(entry.vm, MaxSteps).end = "returned"
            /\ VMState' = StepByStep(entry.vm, MaxSteps).vm]_vars
    /\ [][(run /\ done) => (UNCHANGED vmvars /\ call' = "idle")]_vars

\* run() returned on the quine program, which crosses sixteen outputs
C21_Witness ==
    /\ entry.call = "run" /\ call = "idle" /\ done /\ Len(outputs) = 16

(***************************************************************************)
(* Calls that never return.                                                *)
(***************************************************************************)
\* how the loop of run_till_output ends from vm, followed for at most n
\* iterations: it returns, it panics, or it comes back to a VM it has been
\* in (seen) and so goes round for ever
RECURSIVE Fate(_, _, _)
Fate(vm, n, seen) ==
    IF vm \in seen THEN "cycle"
    ELSE IF n = 0 THEN "cut"
    ELSE LET r == Exec(vm)
         IN  IF r.fault # "none" THEN "panicked"
             ELSE IF r.brk THEN "returned"
             ELSE Fate(VMOf(r), n - 1, seen \cup {vm})

InRunTillOutputCall == call = "run_till_output" /\ fault = "none"

\* C22 as stated: every call of run_till_output leads to the return of
\* control to the caller (a panic aside), for every program, loops of jumps
\* without Output and Halt included.
C22_AlwaysReturns ==
    InRunTillOutputCall ~> (call = "idle" \/ fault # "none")

\* C22, amended: a call of run_till_output leads to the return of control
\* or to a panic unless the execution comes back to a VM it has been in
\* with no Output and no Halt between; from there every iteration stays in
\* the call and the call never returns.
C22_ReturnsUnlessCycle ==
    /\ (InRunTillOutputCall /\ Fate(VMState, MaxSteps, {}) # "cycle")
          ~> (call = "idle" \/ fault # "none")
    /\ [][(InRunTillOutputCall /\ Fate(VMState, MaxSteps, {}) = "cycle") =>
            (call' = "run_till_output" /\ fault' = "none")]_vars

\* run_till_output has gone once round a loop of two jumps and is at its
\* first jump again
C22_Witness ==
    /\ program = <<1105, 1, 3, 1105, 1, 0>>
    /\ call = "run_till_output" /\ last.pc = 3 /\ pc = 0

(***************************************************************************)
(* The quine of test_quine.                                                *)
(***************************************************************************)
Quine ==
    <<109, 1, 204, -1, 1001, 100, 1, 100, 1008, 100, 16, 101, 1006, 101,
      0, 99>>

\* C29: on the quine no instruction panics, what it has output so far is
\* always the first words of the program in order, and once it is halted,
\* as when run has returned, its outputs are exactly the program.
C29_QuineOutputsItself ==
    program = Quine =>
        /\ fault \in {"none", "EmptyOutputLog"}
        /\ IsPrefix(outputs, program)
        /\ done => outputs = program
        /\ (entry.call = "run" /\ call = "idle") => (done /\ outputs = program)

\* run has returned on the quine with the whole program output
C29_Witness ==
    /\ program = Quine /\ entry.call = "run" /\ call = "idle"
    /\ outputs = Quine /\ Len(bytecode) > Len(Quine)

(***************************************************************************)
(* Large values.                                                           *)
(***************************************************************************)
\* a wide word in its canonical form
IsWide(w) ==
    /\ \A k \in 1..Len(w) : w[k] \in 0..(WideBase - 1)
    /\ w = Trim(w)

\* pairwise coprime moduli whose product, above 9 * 10^19, exceeds 2^63:
\* two words below 2^63 with the same residues are the same word
Moduli == {9973, 9967, 9949, 9941, 9931}

RECURSIVE Residue(_, _)
Residue(w, m) ==
    IF w = <<>> THEN 0 ELSE (Head(w) + WideBase * Residue(Tail(w), m)) % m

\* w is exactly v1 + v2 (Add) or v1 * v2 (Multiply)
IsExact(op, v1, v2, w) ==
    /\ IsWide(w) /\ WideFits(w)
    /\ \A m \in Moduli :
          Residue(w, m) =
            IF op = "Add" THEN (Residue(v1, m) + Residue(v2, m)) % m
            ELSE (Residue(v1, m) * Residue(v2, m)) % m

\* the number of decimal digits of a wide word
WideDigits(w) ==
    IF w = <<>> THEN 1
    ELSE 4 * (Len(w) - 1)
         + (CASE w[Len(w)] < 10 -> 1 [] w[Len(w)] \in 10..99 -> 2
              [] w[Len(w)] \in 100..999 -> 3 [] OTHER -> 4)

WideOperandValue(o) ==
    IF o.mode = "Immediate" THEN o.value ELSE bytecode[o.value + 1]

\* C30: on words up to 2^53 and beyond, every Add and every Multiply
\* whose result fits i64 stores exactly the sum or the product of its two
\* operand values, every Output appends exactly its operand value, and no
\* step panics; 104,1125899906842624,99 outputs 1125899906842624 and
\* 1102,34915192,34915192,7,4,7,99,0 outputs 1219070632396864, a number
\* of 16 digits, which get_last_output returns.
C30_LargeValuesExact ==
    /\ [][(InLoop /\ pc' # pc) =>
            LET i == WideInstruction(bytecode, pc)
            IN  /\ fault' = "none"
                /\ i.op \in {"Add", "Multiply"} =>
                      IsExact(i.op, WideOperandValue(i.operands[1]),
                              WideOperandValue(i.operands[2]),
                              bytecode'[i.operands[3].value + 1])
                /\ i.op = "Output" =>
                      outputs' = Append(outputs,
                                        WideOperandValue(i.operands[1]))]_vars
    /\ [](program = LargeNumberProgram =>
            /\ done => outputs = <<LargeNumber>>
            /\ ret.kind = "get_last_output" => ret.val = <<LargeNumber>>)
    /\ [](program = SixteenDigitProgram =>
            /\ done => outputs = << <<6864, 3239, 706, 1219>> >>
            /\ ret.kind = "get_last_output" =>
                  (ret.val = << <<6864, 3239, 706, 1219>> >>
                   /\ WideDigits(ret.val[1]) = 16))

\* run returned on the program that squares 34915192 and get_last_output
\* returned the 16 digits
C30_Witness ==
    /\ program = SixteenDigitProgram /\ done
    /\ ret = [kind |-> "get_last_output", val |-> outputs]
    /\ outputs = << <<6864, 3239, 706, 1219>> >>

(***************************************************************************)
(* The VM of d07b.rs, private to that binary: two modes, no opcode 9, no   *)
(* relative base, memory that never grows, and a run() that returns after  *)
(* every Output.  A VM is [bytecode, pc, inputs, outputs, done].           *)
(***************************************************************************)
ModeFrom_d07b(v) ==
    CASE v = 0 -> "Position"
      [] v = 1 -> "Immediate"
      [] OTHER -> "Unexpected"

ModeParse_d07b(m, index) ==
    CASE index = 0 -> ModeFrom_d07b(RustDiv(RustRem(m, 1000), 100))
      [] index = 1 -> ModeFrom_d07b(RustDiv(RustRem(m, 10000), 1000))
      [] index = 2 -> ModeFrom_d07b(RustDiv(RustRem(m, 100000), 10000))
      [] OTHER -> "Unexpected"

OpcodeFrom_d07b(v) ==
    LET r == RustRem(v, 100)
    IN  CASE r = 1 -> "Add"
          [] r = 2 -> "Multiply"
          [] r = 3 -> "Input"
          [] r = 4 -> "Output"
          [] r = 5 -> "JumpIfTrue"
          [] r = 6 -> "JumpIfFalse"
          [] r = 7 -> "LessThan"
          [] r = 8 -> "Equals"
          [] r = 99 -> "Halt"
          [] OTHER -> "Unexpected"

\* the first panic of the operand pushes of slot i: the index
\* bytecode[pc + 1 + i], then Mode::parse(mode, i)
SlotFault_d07b(mem, p, mode, i) ==
    IF ~InBounds(mem, p + 1 + i) THEN "FetchOutOfBounds"
    ELSE IF ModeParse_d07b(mode, i) = "Unexpected" THEN "UnknownMode"
    ELSE "none"

OperandsFault_d07b(mem, p, mode, n) ==
    LET bad == {i \in 0..(n - 1) : SlotFault_d07b(mem, p, mode, i) # "none"}
    IN  IF bad = {} THEN "none"
        ELSE SlotFault_d07b(mem, p, mode,
                            CHOOSE i \in bad : \A j \in bad : i <= j)

get_next_instruction_d07b(mem, p) ==
    IF ~InBounds(mem, p)
    THEN [fault |-> "FetchOutOfBounds", code |-> 0, opcode |-> 0,
          op |-> "Unexpected", operands |-> <<>>]
    ELSE
    LET code == mem[p + 1]
        mode == code - RustRem(code, 100)
        opcode == RustRem(code, 100)
        op == OpcodeFrom_d07b(code)
        n == NumOperands(op)
        f == OperandsFault_d07b(mem, p, mode, n)
    IN  IF op = "Unexpected"
        THEN [fault |-> "UnknownOpcode", code |-> code, opcode |-> opcode,
              op |-> op, operands |-> <<>>]
        ELSE IF f # "none"
        THEN [fault |-> f, code |-> code, opcode |-> opcode,
              op |-> op, operands |-> <<>>]
        ELSE [fault |-> "none", code |-> code, opcode |-> opcode, op |-> op,
              operands |-> [i \in 1..n |->
                              Operand(mem[p + 1 + i],
                                      ModeParse_d07b(mode, i - 1))]]

\* get_value taking every operand as Immediate
get_value_immediate_d07b(mem, op) == [fault |-> "none", val |-> op.value]

\* get_value: the operand itself, or bytecode[op.value as usize]
get_value_d07b(mem, op) ==
    IF op.mode = "Immediate" THEN [fault |-> "none", val |-> op.value]
    ELSE IF ~InBounds(mem, op.value)
    THEN [fault |-> "IndexOutOfBounds", val |-> 0]
    ELSE [fault |-> "none", val |-> mem[op.value + 1]]

\* bytecode[a as usize] = v
IndexStore_d07b(mem, a, v) ==
    IF ~InBounds(mem, a) THEN [fault |-> "IndexOutOfBounds", mem |-> mem]
    ELSE [fault |-> "none", mem |-> [mem EXCEPT ![a + 1] = v]]

new_d07b(prog) ==
    [bytecode |-> prog, pc |-> 0, inputs |-> <<>>, outputs |-> <<>>,
     done |-> FALSE]

\* set_inputs putting the values in front of the queue
set_inputs_front_d07b(vm, v) == [vm EXCEPT !.inputs = v \o @]

set_inputs_d07b(vm, v) == [vm EXCEPT !.inputs = PushAll(@, v)]

\* outputs.last(): the Option that get_last_output unwraps
get_last_output_d07b(vm) ==
    IF vm.outputs = <<>> THEN [some |-> FALSE, val |-> 0]
    ELSE [some |-> TRUE, val |-> vm.outputs[Len(vm.outputs)]]

Base_d07b(vm) ==
    [bytecode |-> vm.bytecode, pc |-> vm.pc, inputs |-> vm.inputs,
     outputs |-> vm.outputs, done |-> vm.done, fault |-> "none",
     brk |-> FALSE]

\* the arms that store: Add, Multiply, LessThan, Equals
ExecStore_d07b(vm, i) ==
    LET b == Base_d07b(vm)
        v1 == get_value_d07b(vm.bytecode, i.operands[1])
        v2 == get_value_d07b(vm.bytecode, i.operands[2])
        w == IndexStore_d07b(vm.bytecode, i.operands[3].value,
                             StoreResult(i.op, v1.val, v2.val))
    IN  IF v1.fault # "none" THEN [b EXCEPT !.fault = v1.fault]
        ELSE IF v2.fault # "none" THEN [b EXCEPT !.fault = v2.fault]
        ELSE IF w.fault # "none" THEN [b EXCEPT !.fault = w.fault]
        ELSE [b EXCEPT !.bytecode = w.mem, !.pc = @ + 4]

ExecInput_d07b(vm, i) ==
    LET b == Base_d07b(vm)
        inp == pop_front(vm.inputs)
        w == IndexStore_d07b(vm.bytecode, i.operands[1].value, inp.val)
    IN  IF ~inp.some THEN [b EXCEPT !.fault = "InputExhausted"]
        ELSE IF w.fault # "none"
        THEN [b EXCEPT !.inputs = inp.rest, !.fault = w.fault]
        ELSE [b EXCEPT !.inputs = inp.rest, !.bytecode = w.mem, !.pc = @ + 2]

\* the Output arm without its break
ExecOutputNoBreak_d07b(vm, i) ==
    LET b == Base_d07b(vm)
        v == get_value_d07b(vm.bytecode, i.operands[1])
    IN  IF v.fault # "none" THEN [b EXCEPT !.fault = v.fault]
        ELSE [b EXCEPT !.outputs = output(@, v.val), !.pc = @ + 2]

ExecOutput_d07b(vm, i) ==
    LET b == Base_d07b(vm)
        v == get_value_d07b(vm.bytecode, i.operands[1])
    IN  IF v.fault # "none" THEN [b EXCEPT !.fault = v.fault]
        ELSE [b EXCEPT !.outputs = output(@, v.val), !.pc = @ + 2,
                       !.brk = TRUE]

ExecJump_d07b(vm, i) ==
    LET b == Base_d07b(vm)
        v1 == get_value_d07b(vm.bytecode, i.operands[1])
        v2 == get_value_d07b(vm.bytecode, i.operands[2])
    IN  IF v1.fault # "none" THEN [b EXCEPT !.fault = v1.fault]
        ELSE IF ~JumpTaken(i.op, v1.val) THEN [b EXCEPT !.pc = @ + 3]
        ELSE IF v2.fault # "none" THEN [b EXCEPT !.fault = v2.fault]
        ELSE [b EXCEPT !.pc = AsUsize(v2.val)]

ExecHalt_d07b(vm) ==
    [Base_d07b(vm) EXCEPT !.pc = @ + 1, !.done = TRUE, !.brk = TRUE]

\* one iteration of the loop of run(); brk says the loop is left
Exec_d07b(vm) ==
    LET i == get_next_instruction_d07b(vm.bytecode, vm.pc)
    IN  IF i.fault # "none" THEN [Base_d07b(vm) EXCEPT !.fault = i.fault]
        ELSE CASE i.op = "Halt" -> ExecHalt_d07b(vm)
               [] i.op \in {"Add", "Multiply", "LessThan", "Equals"} ->
                    ExecStore_d07b(vm, i)
               [] i.op = "Input" -> ExecInput_d07b(vm, i)
               [] i.op = "Output" -> ExecOutput_d07b(vm, i)
               [] i.op \in {"JumpIfTrue", "JumpIfFalse"} ->
                    ExecJump_d07b(vm, i)

VMOf_d07b(r) ==
    [bytecode |-> r.bytecode, pc |-> r.pc, inputs |-> r.inputs,
     outputs |-> r.outputs, done |-> r.done]

(***************************************************************************)
(* The VM of d07.rs, private to that binary: the VM of d07b.rs without the *)
(* done flag and without the break after Output, so that run() returns at  *)
(* Halt only.  A VM is [bytecode, pc, inputs, outputs].                    *)
(***************************************************************************)
new_d07(prog) ==
    [bytecode |-> prog, pc |-> 0, inputs |-> <<>>, outputs |-> <<>>]

set_inputs_d07(vm, v) == [vm EXCEPT !.inputs = PushAll(@, v)]

get_last_output_d07(vm) ==
    IF vm.outputs = <<>> THEN [some |-> FALSE, val |-> 0]
    ELSE [some |-> TRUE, val |-> vm.outputs[Len(vm.outputs)]]

\* one iteration of the loop of run(): the arms are those of d07b.rs, and
\* the loop is left at Halt only
Exec_d07(vm) ==
    LET r == Exec_d07b([bytecode |-> vm.bytecode, pc |-> vm.pc,
                        inputs |-> vm.inputs, outputs |-> vm.outputs,
                        done |-> FALSE])
    IN  [bytecode |-> r.bytecode, pc |-> r.pc, inputs |-> r.inputs,
         outputs |-> r.outputs, fault |-> r.fault, brk |-> r.done]

VMOf_d07(r) ==
    [bytecode |-> r.bytecode, pc |-> r.pc, inputs |-> r.inputs,
     outputs |-> r.outputs]

(***************************************************************************)
(* The library VM as an object the compositions of d07a.rs hold.           *)
(***************************************************************************)
\* set_inputs putting the values in front of the queue
set_inputs_front_of(vm, v) == [vm EXCEPT !.inputs = v \o @]

set_inputs_of(vm, v) == [vm EXCEPT !.inputs = PushAll(@, v)]

get_last_output_of(vm) ==
    IF vm.outputs = <<>> THEN [some |-> FALSE, val |-> 0]
    ELSE [some |-> TRUE, val |-> vm.outputs[Len(vm.outputs)]]

(***************************************************************************)
(* The compositions.  vms is the Vec of the instances (vms[i + 1] is the   *)
(* instance of index i), at is where the function is: building the         *)
(* instances, at the head of its loop, inside run() of the instance        *)
(* vm_index, or returned; a panic is recorded in fault and ends the        *)
(* process.  fed[i + 1] lists the values handed to set_inputs of           *)
(* instance i.                                                             *)
(***************************************************************************)
NumVMs == 5

callervars ==
    <<vmvars, call, program, supplied, consumed, entry, last, ret>>

Fed(i, v) == [fed EXCEPT ![i + 1] = @ \o v]

\* a function that goes on after a panic
RunningDespiteFault == call = "idle"

Running == fault = "none" /\ call = "idle"

(***************************************************************************)
(* d07b.rs, calculate_feedback_loop_thruster_output: the feedback ring.    *)
(***************************************************************************)
\* one pass of the loop that builds the instances
ring_push ==
    /\ topology = "ring" /\ at = "build" /\ Running
    /\ LET i == Len(vms)
       IN  /\ vms' = Append(vms, set_inputs_d07b(new_d07b(program),
                                                 <<seeds[i + 1]>>))
           /\ fed' = Fed(i, <<seeds[i + 1]>>)
           /\ at' = IF i + 1 = NumVMs THEN "while" ELSE "build"
    /\ signal' = 0
    /\ vm_index' = 0
    /\ UNCHANGED <<callervars, fault, topology, seeds, result>>

\* run() of vm has returned: signal = get_last_output(), index advances
RingAfterRun(vm) ==
    LET o == get_last_output_d07b(vm)
    IN  IF o.some
        THEN /\ signal' = o.val
             /\ vm_index' = (vm_index + 1) % NumVMs
             /\ at' = "while"
             /\ fault' = fault
        ELSE /\ fault' = "EmptyOutputLog"
             /\ UNCHANGED <<signal, vm_index, at>>

\* ring_turn with a loop that ends when the first instance has halted
ring_turn_first_done ==
    /\ topology = "ring" /\ at = "while" /\ Running
    /\ IF vms[1].done
       THEN /\ at' = "returned"
            /\ result' = <<signal>>
            /\ UNCHANGED <<vms, signal, vm_index, fed, fault>>
       ELSE LET vm == set_inputs_d07b(vms[vm_index + 1], <<signal>>)
            IN  /\ vms' = [vms EXCEPT ![vm_index + 1] = vm]
                /\ fed' = Fed(vm_index, <<signal>>)
                /\ result' = result
                /\ IF vm.done
                   THEN RingAfterRun(vm)
                   ELSE /\ at' = "run"
                        /\ UNCHANGED <<signal, vm_index, fault>>
    /\ UNCHANGED <<callervars, topology, seeds>>

\* the head of the while loop: the return, or set_inputs(&[signal]) and
\* the entry of run(), which returns at once on an instance that is done
ring_turn ==
    /\ topology = "ring" /\ at = "while" /\ Running
    /\ IF vms[NumVMs].done
       THEN /\ at' = "returned"
            /\ result' = <<signal>>
            /\ UNCHANGED <<vms, signal, vm_index, fed, fault>>
       ELSE LET vm == set_inputs_d07b(vms[vm_index + 1], <<signal>>)
            IN  /\ vms' = [vms EXCEPT ![vm_index + 1] = vm]
                /\ fed' = Fed(vm_index, <<signal>>)
                /\ result' = result
                /\ IF vm.done
                   THEN RingAfterRun(vm)
                   ELSE /\ at' = "run"
                        /\ UNCHANGED <<signal, vm_index, fault>>
    /\ UNCHANGED <<callervars, topology, seeds>>

\* ring_step on instances that share one memory
ring_step_shared ==
    /\ topology = "ring" /\ at = "run" /\ Running
    /\ \E r \in {Exec_d07b(vms[vm_index + 1])} :
          /\ vms' = [j \in 1..Len(vms) |->
                       IF j = vm_index + 1 THEN VMOf_d07b(r)
                       ELSE [vms[j] EXCEPT !.bytecode = r.bytecode]]
          /\ IF r.fault # "none"
             THEN /\ fault' = r.fault
                  /\ UNCHANGED <<signal, vm_index, at>>
             ELSE IF r.brk
             THEN RingAfterRun(VMOf_d07b(r))
             ELSE UNCHANGED <<signal, vm_index, at, fault>>
    /\ UNCHANGED <<callervars, topology, seeds, result, fed>>

\* one iteration of the loop of run() of the current instance, and the
\* rest of the pass when run() returns
ring_step ==
    /\ topology = "ring" /\ at = "run" /\ Running
    /\ \E r \in {Exec_d07b(vms[vm_index + 1])} :
          /\ vms' = [vms EXCEPT ![vm_index + 1] = VMOf_d07b(r)]
          /\ IF r.fault # "none"
             THEN /\ fault' = r.fault
                  /\ UNCHANGED <<signal, vm_index, at>>
             ELSE IF r.brk
             THEN RingAfterRun(VMOf_d07b(r))
             ELSE UNCHANGED <<signal, vm_index, at, fault>>
    /\ UNCHANGED <<callervars, topology, seeds, result, fed>>

(***************************************************************************)
(* d07a.rs, calculate_thruster_output: the linear pipeline on the library  *)
(* VM.                                                                     *)
(***************************************************************************)
pipe_push ==
    /\ topology = "pipeline" /\ at = "build" /\ Running
    /\ LET i == Len(vms)
       IN  /\ vms' = Append(vms, set_inputs_of(new(program), <<seeds[i + 1]>>))
           /\ fed' = Fed(i, <<seeds[i + 1]>>)
           /\ at' = IF i + 1 = NumVMs THEN "for" ELSE "build"
    /\ UNCHANGED <<callervars, fault, topology, seeds, signal, vm_index,
                   result>>

\* the head of the second for loop: after the last pass the return of
\* vms[4].get_last_output(); in a pass, signal, set_inputs(&[signal]) and
\* the entry of run()
pipe_turn ==
    /\ topology = "pipeline" /\ at = "for" /\ Running
    /\ IF vm_index = NumVMs
       THEN LET o == get_last_output_of(vms[NumVMs])
            IN  /\ IF o.some
                   THEN at' = "returned" /\ result' = <<o.val>> /\ fault' = fault
                   ELSE at' = at /\ result' = result
                        /\ fault' = "EmptyOutputLog"
                /\ UNCHANGED <<vms, signal, vm_index, fed>>
       ELSE LET o == IF vm_index > 0 THEN get_last_output_of(vms[vm_index])
                     ELSE [some |-> TRUE, val |-> 0]
                vm == set_inputs_of(vms[vm_index + 1], <<o.val>>)
            IN  IF ~o.some
                THEN /\ fault' = "EmptyOutputLog"
                     /\ UNCHANGED <<vms, signal, vm_index, fed, at, result>>
                ELSE /\ signal' = o.val
                     /\ vms' = [vms EXCEPT ![vm_index + 1] = vm]
                     /\ fed' = Fed(vm_index, <<o.val>>)
                     /\ vm_index' = IF vm.done THEN vm_index + 1 ELSE vm_index
                     /\ at' = IF vm.done THEN "for" ELSE "run"
                     /\ UNCHANGED <<fault, result>>
    /\ UNCHANGED <<callervars, topology, seeds>>

\* one iteration of the loop of run_till_output inside run() of the
\* current instance; run() returns once the instance is done
pipe_step ==
    /\ topology = "pipeline" /\ at = "run" /\ Running
    /\ \E r \in {Exec(vms[vm_index + 1])} :
          /\ vms' = [vms EXCEPT ![vm_index + 1] = VMOf(r)]
          /\ fault' = r.fault
          /\ IF r.fault = "none" /\ AfterIteration("run", r) = "idle"
             THEN vm_index' = vm_index + 1 /\ at' = "for"
             ELSE UNCHANGED <<vm_index, at>>
    /\ UNCHANGED <<callervars, topology, seeds, signal, result, fed>>

(***************************************************************************)
(* d07.rs, calculate_thruster_output: a1 .. a5 built and run one after the *)
(* other.                                                                  *)
(***************************************************************************)
\* VM::new and set_inputs(&[inputs[k], previous.get_last_output()]) of the
\* next instance and the entry of its run(), or the return of
\* a5.get_last_output()
chain_new ==
    /\ topology = "chain" /\ at = "new" /\ Running
    /\ LET o == IF vm_index > 0 THEN get_last_output_d07(vms[vm_index])
                ELSE [some |-> TRUE, val |-> 0]
       IN  IF ~o.some
           THEN /\ fault' = "EmptyOutputLog"
                /\ UNCHANGED <<vms, signal, vm_index, fed, at, result>>
           ELSE IF vm_index = NumVMs
           THEN /\ at' = "returned"
                /\ result' = <<o.val>>
                /\ UNCHANGED <<vms, signal, vm_index, fed, fault>>
           ELSE /\ vms' = Append(vms, set_inputs_d07(new_d07(program),
                                         <<seeds[vm_index + 1], o.val>>))
                /\ fed' = Fed(vm_index, <<seeds[vm_index + 1], o.val>>)
                /\ at' = "run"
                /\ UNCHANGED <<signal, vm_index, fault, result>>
    /\ UNCHANGED <<callervars, topology, seeds>>

chain_step ==
    /\ topology = "chain" /\ at = "run" /\ Running
    /\ \E r \in {Exec_d07(vms[vm_index + 1])} :
          /\ vms' = [vms EXCEPT ![vm_index + 1] = VMOf_d07(r)]
          /\ fault' = r.fault
          /\ IF r.fault = "none" /\ r.brk
             THEN vm_index' = vm_index + 1 /\ at' = "new"
             ELSE UNCHANGED <<vm_index, at>>
    /\ UNCHANGED <<callervars, topology, seeds, signal, result, fed>>

(***************************************************************************)
(* The compositions the model runs: those of the tests, and small programs *)
(* that halt early, halt without output, or panic.                         *)
(***************************************************************************)
\* test_feedback_loop1 and test_feedback_loop2 of d07b.rs
FeedbackProgram1 ==
    <<3, 26, 1001, 26, -4, 26, 3, 27, 1002, 27, 2, 27, 1, 27, 26, 27, 4, 27,
      1001, 28, -1, 28, 1005, 28, 6, 99, 0, 0, 5>>

FeedbackProgram2 ==
    <<3, 52, 1001, 52, -5, 52, 3, 53, 1, 52, 56, 54, 1007, 54, 5, 55, 1005,
      55, 26, 1001, 54, -5, 54, 1105, 1, 12, 1, 53, 54, 53, 1008, 54, 0, 55,
      1001, 55, 1, 55, 2, 53, 55, 53, 4, 53, 1001, 56, -1, 56, 1005, 56, 6,
      99, 0, 0, 0, 0, 10>>

\* test_amplification_circuit, 2 and 3 of d07a.rs and d07.rs
AmplifierProgram1 ==
    <<3, 15, 3, 16, 1002, 16, 10, 16, 1, 16, 15, 15, 4, 15, 99, 0, 0>>

AmplifierProgram2 ==
    <<3, 23, 3, 24, 1002, 24, 10, 24, 1002, 23, -1, 23, 101, 5, 23, 23, 1,
      24, 23, 23, 4, 23, 99, 0, 0>>

AmplifierProgram3 ==
    <<3, 31, 3, 32, 1002, 32, 10, 32, 1001, 31, -2, 31, 1007, 31, 0, 33,
      1002, 33, 7, 33, 1, 33, 31, 31, 1, 32, 31, 31, 4, 31, 99, 0, 0, 0>>

\* reads its seed, then in each round reads the signal and outputs it plus
\* one; an instance of seed 0 halts after its first output, the others
\* after three rounds
EarlyHaltProgram ==
    <<3, 30, 3, 31, 1001, 31, 1, 31, 4, 31, 1006, 30, 20, 1001, 32, -1, 32,
      1005, 32, 2, 99, 0, 0, 0, 0, 0, 0, 0, 0, 0, 0, 0, 3>>

\* outputs its seed and its signal and halts; halts without any output;
\* reads three inputs; meets an unknown opcode after its first output;
\* stores outside its memory; halts without output when its seed is 0 and
\* after the output of its seed otherwise; outputs through a Relative
\* operand; runs off its end
SmallCircuitPrograms ==
    { <<3, 7, 3, 7, 204, 7, 99, 0>>,
      <<3, 3, 3, 3>>,
      <<3, 9, 4, 9, 3, 9, 4, 9, 99, 0>>,
      <<3, 5, 3, 5, 99, 0>>,
      <<3, 0, 3, 0, 3, 0, 99>>,
      <<3, 7, 3, 7, 4, 7, 98, 0>>,
      <<3, 5, 3, 50, 4, 5, 99>>,
      <<3, 9, 1006, 9, 7, 4, 9, 99, 0, 0>> }

SeedLists ==
    { <<9, 8, 7, 6, 5>>, <<9, 7, 8, 5, 6>>, <<5, 6, 7, 8, 9>>,
      <<4, 3, 2, 1, 0>>, <<0, 1, 2, 3, 4>>, <<1, 0, 4, 3, 2>>,
      <<0, 1, 1, 1, 1>>, <<1, 1, 0, 1, 1>>, <<1, 1, 1, 1, 0>> }

CircuitPrograms ==
    { FeedbackProgram1, FeedbackProgram2, AmplifierProgram1,
      AmplifierProgram2, AmplifierProgram3, EarlyHaltProgram }
    \cup SmallCircuitPrograms

InitCircuit ==
    /\ topology \in {"ring", "pipeline", "chain"}
    /\ program \in CircuitPrograms
    /\ seeds \in SeedLists
    /\ vms = <<>>
    /\ signal = 0
    /\ vm_index = 0
    /\ at = IF topology = "chain" THEN "new" ELSE "build"
    /\ result = <<>>
    /\ fed = [i \in 1..NumVMs |-> <<>>]
    /\ bytecode = new(program).bytecode
    /\ pc = new(program).pc
    /\ inputs = new(program).inputs
    /\ outputs = new(program).outputs
    /\ done = new(program).done
    /\ relative_base = new(program).relative_base
    /\ entry = [call |-> "none", vm |-> new(program)]
    /\ fault = "none"
    /\ call = "idle"
    /\ supplied = <<>>
    /\ consumed = 0
    /\ last = NoLast
    /\ ret = NoRet

NextCircuit ==
    \/ ring_push \/ ring_turn \/ ring_step
    \/ pipe_push \/ pipe_turn \/ pipe_step
    \/ chain_new \/ chain_step

SpecCircuit == InitCircuit /\ [][NextCircuit]_vars

(***************************************************************************)
(* The feedback ring.                                                      *)
(***************************************************************************)
InRing == topology = "ring"

RingBuilt == InRing /\ Len(vms) = NumVMs

IsTest(prog, s) == program = prog /\ seeds = s

\* C23: in the ring every instance is first handed its seed, instance 0
\* is then handed the initial signal 0, and each later hand-over is the
\* signal, the last output of the instance that ran before; on the two
\* programs of the tests nothing panics and the function returns the
\* signal it holds when the last instance is done: 139629729 for the
\* first program with seeds 9,8,7,6,5 and 18216 for the second with seeds
\* 9,7,8,5,6.
C23_FeedbackRing ==
    /\ RingBuilt =>
          /\ \A i \in 1..NumVMs : fed[i] # <<>> /\ fed[i][1] = seeds[i]
          /\ Len(fed[1]) > 1 => fed[1][2] = 0
          /\ at = "returned" => (vms[NumVMs].done /\ result = <<signal>>)
    /\ (InRing /\ IsTest(FeedbackProgram1, <<9, 8, 7, 6, 5>>)) =>
          /\ fault = "none"
          /\ at = "returned" => result = <<139629729>>
    /\ (InRing /\ IsTest(FeedbackProgram2, <<9, 7, 8, 5, 6>>)) =>
          /\ fault = "none"
          /\ at = "returned" => result = <<18216>>

\* the ring has returned 139629729
C23_Witness ==
    /\ InRing /\ IsTest(FeedbackProgram1, <<9, 8, 7, 6, 5>>)
    /\ at = "returned" /\ result = <<139629729>>

\* the instance whose turn it is, before and after a step
Current == vms[vm_index + 1]

CurrentAfter == vms'[vm_index + 1]

\* the step is an iteration of run() of the current instance of the ring
RingIteration == InRing /\ at = "run" /\ fault = "none" /\ vms' # vms

\* C24: in the ring the index starts at 0 and only ever moves to the next
\* index in the cyclic order; an instruction is executed only inside the
\* turn of the instance of the current index and changes no other
\* instance; the turn goes on, with the index unchanged, through every
\* instruction that neither outputs nor halts, and ends, with the index
\* moved on, exactly at the instruction that appends one output or halts
\* the instance; an instance that is already halted executes nothing in
\* its turn.
C24_RoundRobin ==
    /\ [](InRing /\ Len(vms) < NumVMs => vm_index = 0)
    /\ [](InRing /\ at = "run" /\ fault = "none" => ~Current.done)
    /\ [][InRing =>
            /\ vm_index' \in {vm_index, (vm_index + 1) % NumVMs}
            /\ \A j \in 1..Len(vms) :
                  (at # "run" \/ j # vm_index + 1) =>
                    /\ vms'[j].bytecode = vms[j].bytecode
                    /\ vms'[j].pc = vms[j].pc
                    /\ vms'[j].outputs = vms[j].outputs
                    /\ vms'[j].done = vms[j].done]_vars
    /\ [][(RingIteration /\ fault' = "none") =>
            LET ends == \/ CurrentAfter.outputs # Current.outputs
                        \/ CurrentAfter.done
            IN  /\ CurrentAfter.outputs # Current.outputs =>
                      Len(CurrentAfter.outputs) = Len(Current.outputs) + 1
                /\ ends => (at' = "while"
                            /\ vm_index' = (vm_index + 1) % NumVMs)
                /\ ~ends => (at' = "run" /\ vm_index' = vm_index)]_vars

\* the second round has begun: instance 0 runs again after instance 4
\* produced its first output
C24_Witness ==
    /\ InRing /\ at = "run" /\ vm_index = 0
    /\ Len(vms[1].outputs) = 1 /\ Len(vms[NumVMs].outputs) = 1
    /\ vms[1].pc > 18

\* the values handed to instance j after its seed (and, for instance 0,
\* after the initial signal 0)
HandedOver(j) ==
    LET skip == IF j = 0 THEN 2 ELSE 1
    IN  IF Len(fed[j + 1]) <= skip THEN <<>>
        ELSE SubSeq(fed[j + 1], skip + 1, Len(fed[j + 1]))

Predecessor(j) == (j + NumVMs - 1) % NumVMs

\* C25 as stated: whenever the ring is at the head of its loop, the values
\* handed to every instance after its seed are the outputs of its
\* predecessor, each once and in the order of production; only the latest
\* output of the instance that ran last, which signal holds, is still to
\* be handed to the instance whose turn is next.
C25_HandOffExact ==
    (RingBuilt /\ at \in {"while", "returned"} /\ fault = "none") =>
        \A j \in 0..(NumVMs - 1) :
            LET h == HandedOver(j)
                o == vms[Predecessor(j) + 1].outputs
            IN  IF j = vm_index /\ o # <<>>
                THEN h = SubSeq(o, 1, Len(o) - 1) /\ signal = o[Len(o)]
                ELSE h = o

(***************************************************************************)
(* Isolation of the instances.                                             *)
(***************************************************************************)
InCircuit == topology \in {"ring", "pipeline", "chain"}

\* vm with one or two values appended to its input queue, all else equal
Enqueued(before, after) ==
    /\ [after EXCEPT !.inputs = before.inputs] = before
    /\ Len(after.inputs) > Len(before.inputs)
    /\ IsPrefix(before.inputs, after.inputs)

\* C26: in the pipelines and in the ring an instance is created with the
\* program as its memory, pc 0, no output, not halted and nothing but its
\* own first inputs queued, and its creation changes no other instance; a
\* step inside run() of one instance leaves every other instance exactly
\* as it was; and a step of the orchestrating function outside run()
\* changes at most one instance, and that only by appending to its input
\* queue.
C26_InstanceIsolation ==
    /\ [][(InCircuit /\ Len(vms') # Len(vms)) =>
            /\ Len(vms') = Len(vms) + 1
            /\ \A j \in 1..Len(vms) : vms'[j] = vms[j]
            /\ LET vm == vms'[Len(vms')]
               IN  /\ vm.bytecode = program /\ vm.pc = 0
                   /\ vm.outputs = <<>>
                   /\ vm.inputs = fed'[Len(vms')]
                   /\ topology # "chain" => ~vm.done
                   /\ topology = "pipeline" => vm.relative_base = 0]_vars
    /\ [][(InCircuit /\ at = "run") =>
            /\ Len(vms') = Len(vms)
            /\ \A j \in 1..Len(vms) :
                  j # vm_index + 1 => vms'[j] = vms[j]]_vars
    /\ [][(InCircuit /\ at # "run" /\ Len(vms') = Len(vms)) =>
            \/ vms' = vms
            \/ \E j \in 1..Len(vms) :
                  /\ Enqueued(vms[j], vms'[j])
                  /\ \A k \in 1..Len(vms) : k # j => vms'[k] = vms[k]]_vars

\* in the ring instance 1 is running on a memory it has changed, beside
\* instance 0, whose memory differs, and instance 2, still the program
C26_Witness ==
    /\ InRing /\ at = "run" /\ vm_index = 1
    /\ vms[2].bytecode # program
    /\ vms[1].bytecode # vms[2].bytecode
    /\ vms[3].bytecode = program /\ vms[3].pc = 0

(***************************************************************************)
(* The linear pipelines.                                                   *)
(***************************************************************************)
InPipeline == topology \in {"pipeline", "chain"}

LastOf(log) == log[Len(log)]

\* the answer of the pipeline on a test, when it has returned
PipelineYields(prog, s, answer) ==
    (InPipeline /\ IsTest(prog, s)) =>
        /\ fault = "none"
        /\ at = "returned" => result = <<answer>>

\* C27: in both pipelines instance i is handed seeds[i] first and then, as
\* its second and last input, 0 for instance 0 and the last output of
\* instance i - 1 for the others; an instance is only started when the
\* instances before it have run to their Halt; the function returns the
\* last output of the last instance; the three test programs yield 43210
\* with seeds 4,3,2,1,0, 54321 with 0,1,2,3,4 and 65210 with 1,0,4,3,2.
C27_LinearPipeline ==
    /\ InPipeline =>
          /\ \A i \in 1..Len(vms) :
                /\ Len(fed[i]) \in {1, 2}
                /\ fed[i][1] = seeds[i]
                /\ Len(fed[i]) = 2 =>
                      fed[i][2] = IF i = 1 THEN 0
                                  ELSE LastOf(vms[i - 1].outputs)
                /\ (i <= vm_index /\ topology = "pipeline") => vms[i].done
                /\ (i <= vm_index /\ topology = "chain") =>
                      vms[i].bytecode[vms[i].pc] = 99
          /\ at = "returned" =>
                (vm_index = NumVMs /\ result = <<LastOf(vms[NumVMs].outputs)>>)
    /\ PipelineYields(AmplifierProgram1, <<4, 3, 2, 1, 0>>, 43210)
    /\ PipelineYields(AmplifierProgram2, <<0, 1, 2, 3, 4>>, 54321)
    /\ PipelineYields(AmplifierProgram3, <<1, 0, 4, 3, 2>>, 65210)

\* the pipeline of d07a.rs has returned 65210
C27_Witness ==
    /\ topology = "pipeline" /\ IsTest(AmplifierProgram3, <<1, 0, 4, 3, 2>>)
    /\ at = "returned" /\ result = <<65210>>

(***************************************************************************)
(* Panics in a composition.                                                *)
(***************************************************************************)
\* the next step of the function evaluates get_last_output() on an
\* instance that has no output: the instance of the ring that has just
\* halted or is handed the signal while done, and in the pipelines the
\* instance that ran before
ReadsEmptyLog ==
    \/ /\ InRing /\ at = "while" /\ ~vms[NumVMs].done
       /\ Current.done /\ Current.outputs = <<>>
    \/ /\ InPipeline /\ at \in {"for", "new"} /\ vm_index > 0
       /\ vms[vm_index].outputs = <<>>

\* C28: in the ring and in the pipelines, once an instance or the
\* function has panicked nothing changes any more: no instance executes
\* an instruction, nothing is handed over, and the function has not
\* returned and never returns an answer; get_last_output() on an instance
\* without output is such a panic, also in the step of the ring in which
\* the instance halts.
C28_FatalErrorAborts ==
    /\ [][(InCircuit /\ fault # "none") => UNCHANGED vars]_vars
    /\ [](InCircuit /\ fault # "none" => (at # "returned" /\ result = <<>>))
    /\ [][(InCircuit /\ fault = "none" /\ ReadsEmptyLog) =>
            fault' = "EmptyOutputLog"]_vars
    /\ [][(InRing /\ at = "run" /\ fault = "none" /\ CurrentAfter.done
            /\ CurrentAfter.outputs = <<>>) =>
            fault' = "EmptyOutputLog"]_vars

\* the first instance of a ring halted without output and the function
\* panicked in get_last_output(); the second instance never ran
C28_Witness ==
    /\ InRing /\ fault = "EmptyOutputLog"
    /\ vms[1].done /\ vms[1].outputs = <<>>
    /\ vms[2].pc = 0 /\ vms[2].bytecode = program

(***************************************************************************)
(* The fresh VM.                                                           *)
(***************************************************************************)
\* nothing has been handed to set_inputs and neither run nor
\* run_till_output has been called
Fresh == supplied = <<>> /\ entry.call = "none"

\* C31: as long as the VM new(program) returned has been given no input
\* and has not been run, its pc and relative base are 0, its input queue
\* and output log are empty, it is not halted, its memory is the program
\* cell for cell, and bytecode() and outputs() return the program and the
\* empty log.
C31_FreshVM ==
    Fresh =>
        /\ pc = 0 /\ relative_base = 0
        /\ inputs = <<>> /\ outputs = <<>>
        /\ ~done
        /\ Len(bytecode) = Len(program)
        /\ \A a \in 1..Len(program) : bytecode[a] = program[a]
        /\ ret.kind = "bytecode" => ret.val = program
        /\ ret.kind = "outputs" => ret.val = <<>>

\* bytecode() was called on the fresh VM of the quine
C31_Witness ==
    /\ Fresh /\ program = Quine
    /\ ret = [kind |-> "bytecode", val |-> Quine]

(***************************************************************************)
(* The fetch at the end of memory.                                         *)
(***************************************************************************)
\* the highest cell the fetch at pc indexes: pc itself, or the last
\* operand cell of the instruction whose opcode is at pc
HighestFetched ==
    IF InBounds(bytecode, pc)
    THEN pc + NumOperands(OpcodeFrom(WordAtPc))
    ELSE pc

\* C32 as stated: when the fetch indexes a cell at or beyond the length of
\* memory, memory is extended past that cell and the fetch does not end in
\* an out-of-bounds panic.
C32_FetchGrowsMemory ==
    [][(InLoop /\ HighestFetched >= Len(bytecode)) =>
          /\ fault' # "FetchOutOfBounds"
          /\ Len(bytecode') > HighestFetched]_vars

(***************************************************************************)
(* Where Input stores.                                                     *)
(***************************************************************************)
\* C33: an Input in Relative mode stores the popped input at raw value +
\* relative_base, one whose mode digit is 1 stores it at the raw value as
\* Position mode does; after the relative-base program with inputs 111 and
\* 55, cell 155 holds 111 and cell 50 holds 55.
C33_InputStoresAt ==
    /\ [][(InLoop /\ last'.inst.fault = "none" /\ last'.inst.op = "Input"
              /\ fault' = "none") =>
            LET o == last'.inst.operands[1]
                a == IF o.mode = "Relative" THEN o.value + relative_base
                     ELSE o.value
            IN  /\ WroteOnlyAt(a)
                /\ bytecode'[a + 1] = Head(inputs)
                /\ inputs' = Tail(inputs)]_vars
    /\ []((program = RelativeProgram /\ supplied = <<111, 55>> /\ done) =>
            bytecode[156] = 111 /\ bytecode[51] = 55)

\* the relative-base program has halted with both inputs stored
C33_Witness ==
    /\ program = RelativeProgram /\ done /\ fault = "none"
    /\ relative_base = 105
    /\ last.inst.op = "Halt"
    /\ bytecode[156] = 111 /\ bytecode[51] = 55

(***************************************************************************)
(* What the feedback ring returns.                                         *)
(***************************************************************************)
\* C34: the ring's loop exits only right after the last instance's own
\* turn: while the function runs the last instance is never halted with
\* another instance's turn next, and a returned result is the last output
\* of the last instance.
C34_RingReturnsLastOutput ==
    /\ (RingBuilt /\ at \in {"while", "run"} /\ vm_index # 0
          /\ fault = "none") =>
          ~vms[NumVMs].done
    /\ (InRing /\ at = "returned") =>
          /\ vm_index = 0
          /\ vms[NumVMs].done
          /\ vms[NumVMs].outputs # <<>>
          /\ signal = LastOf(vms[NumVMs].outputs)
          /\ result = <<signal>>

\* a result returned after a halting round in which the first instance
\* halted without a new output and signal took its older last output
C34_Witness ==
    /\ InRing /\ at = "returned" /\ fault = "none"
    /\ result = <<LastOf(vms[NumVMs].outputs)>>
    /\ vms[1].done /\ vms[1].inputs # <<>>
    /\ Len(fed[2]) = 3 /\ Len(vms[1].outputs) = 1
    /\ fed[2][3] = LastOf(vms[1].outputs)
    /\ LastOf(vms[1].outputs) # result[1]

(***************************************************************************)
(* Decoding comes before execution.                                        *)
(***************************************************************************)
\* C35: a step executes the instruction decoded from the memory and pc it
\* started with: a storing instruction stores the result of the two source
\* values as they were before the store, and every instruction but a jump
\* advances pc by the width of the decoded opcode, also when it overwrites
\* its own opcode or operand cells; [1,0,0,0,99] ends as [2,0,0,0,99] with
\* pc 5.
C35_DecodedBeforeExecuted ==
    /\ [][(InLoop /\ last'.inst.fault = "none" /\ fault' = "none") =>
            LET i == last'.inst
            IN  /\ i = get_next_instruction(bytecode, pc)
                /\ last'.pc = pc
                /\ i.op \in {"Add", "Multiply", "LessThan", "Equals"} =>
                      bytecode'[WriteAddr(i.operands[3]) + 1] =
                          StoreResult(i.op, OperandValue(i.operands[1]),
                                      OperandValue(i.operands[2]))
                /\ i.op \notin {"JumpIfTrue", "JumpIfFalse"} =>
                      pc' = pc + 1 + NumOperands(i.op)]_vars
    /\ []((program = <<1, 0, 0, 0, 99>> /\ done /\ fault = "none") =>
            (bytecode = <<2, 0, 0, 0, 99>> /\ pc = 5 /\ last.pc = 4))

\* an Add has just overwritten its own opcode cell, which was also both
\* of its sources, and pc moved on by four
C35_Witness ==
    /\ program = <<1, 0, 0, 0, 99>> /\ fault = "none"
    /\ last.inst.op = "Add" /\ last.pc = 0 /\ last.wrote = {0}
    /\ bytecode[1] = 2 /\ pc = 4

(***************************************************************************)
(* Digits of the instruction word that the decoder does not read.          *)
(***************************************************************************)
\* what can be added to word w without touching its opcode or the mode
\* digits of the slots its opcode reads
Unread(w) ==
    LET n == NumOperands(OpcodeFrom(w))
    IN  {d * 10 ^ (2 + k) : d \in {1, 3, 9}, k \in n..2}
            \cup {100000, 1000000}

WithWord(vm, w) == [vm EXCEPT !.bytecode[vm.pc + 1] = w]

\* two outcomes of an iteration that differ at most in the cell p, which
\* held the instruction word and was not stored to
SameEffect(r1, r2, p) ==
    /\ r1.fault = r2.fault /\ r1.inst.fault = r2.inst.fault
    /\ r1.inst.op = r2.inst.op /\ r1.inst.operands = r2.inst.operands
    /\ r1.pc = r2.pc /\ r1.inputs = r2.inputs /\ r1.outputs = r2.outputs
    /\ r1.done = r2.done /\ r1.relative_base = r2.relative_base
    /\ r1.brk = r2.brk /\ r1.wrote = r2.wrote
    /\ Len(r1.bytecode) = Len(r2.bytecode)
    /\ \A a \in 1..Len(r1.bytecode) :
          (a # p + 1 \/ p \in r1.wrote) => r1.bytecode[a] = r2.bytecode[a]

\* C36: an instruction word and the word with other digits in the mode
\* places of unread slots, or above the ten-thousands place, decode to the
\* same instruction and execute with the same effect, and the word with
\* the extra digits raises no decoding error the other does not raise
\* (an instruction whose operand addresses its own word reads it as data
\* and is left aside).
C36_UnreadDigitsIgnored ==
    (fault = "none" /\ InBounds(bytecode, pc) /\ WordAtPc >= 0
        /\ OpcodeFrom(WordAtPc) # "Unexpected"
        /\ pc \notin Exec(VMState).addrs) =>
        \A j \in Unread(WordAtPc) :
            SameEffect(Exec(VMState), Exec(WithWord(VMState, WordAtPc + j)),
                       pc)

\* 30004 was executed as the Output it is without the 3, and 3099 as Halt
C36_Witness ==
    /\ program = <<1101, 7, 8, 9, 30004, 9, 99, 2, 3, 0>>
    /\ outputs = <<15>> /\ fault = "none"
    /\ last.inst.code = 30004 /\ last.inst.op = "Output"
    /\ last.inst.operands = <<Operand(9, "Position")>>
    /\ \E r \in {Exec(WithWord(VMState, 3099))} :
          r.fault = "none" /\ r.done /\ r.inst.op = "Halt"

(***************************************************************************)
(* Determinism in the program and the input sequence.                      *)
(***************************************************************************)
\* C37: a VM that has halted without a panic, however its inputs were
\* split over calls of set_inputs and whichever of run() and
\* run_till_output drove it, has the output log, memory, pc, relative base
\* and input queue of a VM built from the same program, given all the
\* input values in one slice and driven by run_till_output alone.
C37_Deterministic ==
    (done /\ fault = "none" /\ call = "idle") =>
        LET ref == StepByStep(set_inputs_of(new(program), supplied), MaxSteps)
        IN  /\ ref.end = "returned"
            /\ VMState = ref.vm

\* the program echoing two inputs has halted in a third call of
\* run_till_output, after two calls that each returned at an output
C37_Witness ==
    /\ program = <<3, 9, 4, 9, 3, 9, 4, 9, 99, 0>>
    /\ done /\ fault = "none" /\ call = "idle"
    /\ supplied = <<111, 55>> /\ outputs = <<111, 55>>
    /\ entry.call = "run_till_output" /\ Len(entry.vm.outputs) = 2

(***************************************************************************)
(* The VM of d07b.rs against the VM of vm.rs.                              *)
(***************************************************************************)
\* programs of opcodes 1 to 8 and 99 with Position and Immediate sources
\* and Position destinations
PlainModePrograms ==
    { <<op + 100 * m0 + 1000 * m1, x, y, 9, 4, 9, 99, 5, 6, 0>> :
        op \in {1, 2, 7, 8}, m0 \in 0..1, m1 \in 0..1,
        x \in {0, 3, 8}, y \in {0, 3, 8} }
    \cup { <<w, x, y, 104, 1, 99, 104, 2, 99, 6, 0, 8>> :
             w \in {5, 105, 1005, 1105, 6, 106, 1006, 1106},
             x \in {0, 9, 10}, y \in {6, 9, 11} }
    \cup JumpTestPrograms \cup InputPrograms
    \cup {FeedbackProgram1, AmplifierProgram1}

InitPlain == InitOn(PlainModePrograms)

\* the caller of d07b.rs: set_inputs, then the call that returns at the
\* next output
NextPlain ==
    \/ SetInputs
    \/ run_till_output
    \/ run_till_output_loop

SpecPlain == InitPlain /\ [][NextPlain]_vars

\* the VM of d07b.rs related to a VM of vm.rs: the same memory, pc, input
\* queue, output log and done flag
AsVM_d07b(vm) ==
    [bytecode |-> vm.bytecode, pc |-> vm.pc, inputs |-> vm.inputs,
     outputs |-> vm.outputs, done |-> vm.done]

\* the instruction at pc of vm is one both VMs know: an opcode of 1 to 8
\* or 99, sources in Position or Immediate mode, a destination in
\* Position mode, every address inside memory
InClass(vm) ==
    LET i == get_next_instruction(vm.bytecode, vm.pc)
        n == Len(i.operands)
        writes == i.op \in WriteOps
    IN  /\ i.fault = "none"
        /\ i.op # "AdjustRelativeBase"
        /\ \A k \in 1..n :
              /\ i.operands[k].mode \in {"Position", "Immediate"}
              /\ i.operands[k].mode = "Position" =>
                    InBounds(vm.bytecode, i.operands[k].value)
        /\ writes => i.operands[n].mode = "Position"

\* the two VMs stay related through one call, run_till_output on lv and
\* run() on dv, followed for at most n iterations and for as long as the
\* instructions are in the class
RECURSIVE Agree(_, _, _)
Agree(lv, dv, n) ==
    IF AsVM_d07b(lv) # dv THEN FALSE
    ELSE IF lv.done \/ n = 0 \/ ~InClass(lv) THEN TRUE
    ELSE LET r == Exec(lv)
             d == Exec_d07b(dv)
         IN  /\ (r.fault = "none") = (d.fault = "none")
             /\ r.brk = d.brk
             /\ r.fault = "none" => AsVM_d07b(VMOf(r)) = VMOf_d07b(d)
             /\ (r.fault = "none" /\ ~r.brk) =>
                    Agree(VMOf(r), VMOf_d07b(d), n - 1)

\* C38: from related states, one call of run() of the VM of d07b.rs and
\* one call of run_till_output of the VM of vm.rs run the same iterations
\* and leave the same memory, pc, done flag, input queue and output log,
\* as long as the instructions have opcodes 1 to 8 or 99, Position or
\* Immediate sources, Position destinations and addresses inside memory.
C38_PrivateVMAgrees ==
    fault = "none" => Agree(VMState, AsVM_d07b(VMState), MaxSteps)

\* both VMs ran the first feedback program from its start to its first
\* output: the state reached is the one the VM of d07b.rs reaches
C38_Witness ==
    /\ program = FeedbackProgram1 /\ supplied = <<55, 111>>
    /\ call = "idle" /\ fault = "none" /\ Len(outputs) = 1
    /\ \E r \in {OneCall(entry.vm, MaxSteps)} :
          r.end = "returned" /\ r.vm = VMState
    /\ InClass(entry.vm)
    /\ Agree(entry.vm, AsVM_d07b(entry.vm), MaxSteps)

====
